---------------------------- MODULE Spec2Model ----------------------------
(***************************************************************************)
(* A model of the Hare consensus core of go-spacemesh (package hare3).     *)
(*                                                                         *)
(* hare3/hare.go holds the session scheduler (Hare.Start, Hare.onLayer,    *)
(* Hare.run, Hare.onOutput), the gossip validator (Hare.Handler) and the   *)
(* session registry (Hare.sessions under Hare.mu).  The protocol state     *)
(* machine behind session.proto (newProtocol, OnInput, OnInitial, Next),   *)
(* the IterRound arithmetic and the grading oracle are used by that file   *)
(* but are not part of the sources at hand; they are modelled here from    *)
(* sections 3, 4.1 and 4.2 of the specification.                           *)
(***************************************************************************)
EXTENDS Integers, Sequences, FiniteSets, TLC

(***************************************************************************)
(* Bounds of the model.                                                    *)
(***************************************************************************)
\* on_input calls made on the session in SpecInput
MaxInputs == 3
\* messages delivered to the session in SpecProto
MaxDeliveries == 2
\* notify messages delivered to the two participants of SpecPair
MaxPairDeliveries == 2
\* last round (by absolute number) a participant of SpecPair executes
MaxPairAbs == 13
\* messages delivered to the sessions of SpecSched
MaxSchedDeliveries == 2
\* the last EnableLayer and genesis layer of SpecRange, and its last clock tick
MaxRangeLayer == 2
MaxRangeTime == 14
\* the greatest Config.IterationsLimit of SpecLimit
MaxLimit == 2
\* preround messages delivered in SpecCoin
MaxCoinDeliveries == 2
\* the greatest balance of the account of SpecAccount and the calls made on it
MaxBalance == 4
MaxAcctCalls == 3
\* the greatest queue size of the request server, and the streams opened
MaxQueueSize == 2
MaxStreams == 3
\* arrivals of one message graded in SpecGrade, and its last clock tick
MaxArrivals == 2
MaxGradeTime == 18
\* the longest preround delay and round duration given to Validate
MaxDelay == 2
\* the last of the short zdist values given to Validate
MaxShortZdist == 40
\* last layer a committee upgrade is configured at
MaxUpgradeLayer == 3
\* messages delivered to the sessions of SpecSchedLive
MaxLiveDeliveries == 1
\* last clock tick of SpecSched
MaxSchedTime == 27
\* capacity of the coins and results channels
ChannelCap == 1
\* Handler calls made in SpecRace
MaxRaceCalls == 4
\* Handler calls made in SpecHandler
MaxCalls == 3
\* last clock tick of SpecHandler
MaxTime == 6
\* last round (by absolute number) a session of SpecProto executes
MaxAbs == 7

(***************************************************************************)
(* Configuration (hare3.Config), in clock ticks.                           *)
(***************************************************************************)
Committee == 2
\* DefaultConfig: Committee
DefaultCommittee == 800
PreroundDelay == 1
RoundDuration == 2
IterationsLimit == 2
\* math.MaxUint32, cut to the largest integer of the model checker
MaxUint32 == 2147483647
\* Config.IterationsLimit is a uint8
MaxIterationsLimit == 255
EnableLayer == 1
DisableLayer == 3
\* the node clock's layer length, in ticks
LayerDuration == 3

(***************************************************************************)
(* Data model (specification, section 3).                                  *)
(***************************************************************************)
Signers == {"s1", "s2"}
Proposals == {"P1", "P2"}
\* value sets; a value set stands for its own fingerprint
Values == SUBSET Proposals
\* the value sets remote signers put into messages
InputValues == {{"P1"}, {"P2"}}
\* the candidate sets the local collator hands to on_initial
Candidates == {{}, {"P1"}}

\* eligibility count and VRF signature of a signer: fixed by the oracle
EligibilityCount(s) == IF s = "s1" THEN 1 ELSE 2
VrfSignature(s) == IF s = "s1" THEN 3 ELSE 2

\* option<T>: the empty sequence, or a sequence of one element
None == << >>
Some(x) == << x >>

preround == 0
hardlock == 1
softlock == 2
status == 3
proposal == 4
commit == 5
notify == 6
RoundsPerIter == 6
Rounds == preround .. notify
MessageRounds == {preround, status, proposal, commit, notify}

\* mutation of Absolute: the index is kept in 8 bits, as Iter is
AbsoluteWrapped(iter, round) == (iter * RoundsPerIter + round) % 256

\* IterRound.Absolute: the total order on (iter, round)
Absolute(iter, round) == iter * RoundsPerIter + round

\* mutation of IsMessageRound: every round is taken for a message round
IsMessageRoundAlways(round) == TRUE

\* IterRound.IsMessageRound
IsMessageRound(round) == round \in MessageRounds

\* Config.roundStart: the expected time of a round, relative to layer start
roundStart(iter, round) ==
    IF round = 0
      THEN PreroundDelay
      ELSE PreroundDelay + (Absolute(iter, round) - 1) * RoundDuration

\* mutation of Threshold: the "+ 1" left out
ThresholdHalf == Committee \div 2

\* Config.CommitteeFor(layer)/2 + 1 with no committee upgrade configured
Threshold == (Committee \div 2) + 1

\* the configuration the sessions run with: no committee upgrade
Config ==
    [ Enable |-> TRUE, EnableLayer |-> EnableLayer, DisableLayer |-> DisableLayer,
      Committee |-> Committee, CommitteeUpgrade |-> << >>,
      IterationsLimit |-> IterationsLimit, PreroundDelay |-> PreroundDelay,
      RoundDuration |-> RoundDuration ]

\* Config.roundStart of a configuration cfg
roundStartOf(cfg, iter, round) ==
    IF round = 0
      THEN cfg.PreroundDelay
      ELSE cfg.PreroundDelay + (Absolute(iter, round) - 1) * cfg.RoundDuration

\* the errors of Config.Validate
TerminatesLater == "hare terminates later than expected"

DisabledBeforeEnabled == "disabled layer must be larger than enabled"

\* Config.Validate(zdist)
Validate(cfg, zdist) ==
    LET terminates == roundStartOf(cfg, cfg.IterationsLimit, hardlock)
    IN  IF terminates > zdist THEN TerminatesLater
        ELSE IF cfg.Enable /\ cfg.DisableLayer <= cfg.EnableLayer
          THEN DisabledBeforeEnabled
        ELSE "nil"

\* mutation of CommitteeFor: the upgrade holds from the layer after its own
CommitteeForAfter(cfg, layer) ==
    IF cfg.CommitteeUpgrade # << >> /\ layer > cfg.CommitteeUpgrade[1].Layer
      THEN cfg.CommitteeUpgrade[1].Size
      ELSE cfg.Committee

\* Config.CommitteeFor
CommitteeFor(cfg, layer) ==
    IF cfg.CommitteeUpgrade # << >> /\ layer >= cfg.CommitteeUpgrade[1].Layer
      THEN cfg.CommitteeUpgrade[1].Size
      ELSE cfg.Committee

\* onLayer: the threshold given to newProtocol, a uint16
SessionThreshold(cfg, layer) == ((CommitteeFor(cfg, layer) \div 2) + 1) % 65536

\* mutation of Grade: the two middle grades the other way round
GradeSwapped(delta) ==
    IF delta <= 0 THEN 3
    ELSE IF delta <= RoundDuration THEN 1
    ELSE IF delta <= 2 * RoundDuration THEN 2
    ELSE 0

\* the oracle's grade of a message from its arrival delay past the expected
\* start of its round
Grade(delta) ==
    IF delta <= 0 THEN 3
    ELSE IF delta <= RoundDuration THEN 2
    ELSE IF delta <= 2 * RoundDuration THEN 1
    ELSE 0

(***************************************************************************)
(* Protocol state machine (specification, section 4.1).                    *)
(*                                                                         *)
(* first: the first message seen from a signer in an (iter, round), keyed  *)
(*   <<signer, iter, round>>;                                              *)
(* tally: the weighted multisets, keyed <<iter, round, value>>; tally[k][g]*)
(*   is the weight admitted under k at grade >= g.                         *)
(***************************************************************************)
newProtocol(threshold) ==
    [ threshold    |-> threshold,
      Iter         |-> 0,
      Round        |-> preround,
      first        |-> << >>,
      tally        |-> << >>,
      locked       |-> None,
      equivocators |-> {},
      initial      |-> {},
      result       |-> None ]

Slot(in) == << in.sender, in.iter, in.round >>
Key(in) == << in.iter, in.round, in.value >>

\* the weight tallied under key k at grade >= g
Weight(tally, k, g) == IF k \in DOMAIN tally THEN tally[k][g] ELSE 0

\* tally with n added under key k for every grade up to g
AddWeight(tally, k, g, n) ==
    LET old == IF k \in DOMAIN tally THEN tally[k] ELSE [x \in 1 .. 3 |-> 0]
    IN  [ j \in DOMAIN tally \cup {k} |->
            IF j = k
              THEN [x \in 1 .. 3 |-> IF x <= g THEN old[x] + n ELSE old[x]]
              ELSE tally[j] ]

\* the slots of signer s whose message added weight
Counted(p, s) == { sl \in DOMAIN p.first : sl[1] = s /\ p.first[sl].counted }

\* mutation of SubtractAll: the count is taken out at every grade, not only up
\* to the grade of the message
RECURSIVE SubtractAllAtEveryGrade(_, _, _)
SubtractAllAtEveryGrade(tally, first, slots) ==
    IF slots = {} THEN tally
    ELSE LET sl == CHOOSE x \in slots : TRUE
             m == first[sl]
         IN  SubtractAllAtEveryGrade(
                 AddWeight(tally, << sl[2], sl[3], m.value >>, 3, 0 - m.count),
                 first, slots \ {sl})

\* tally with every weight signer s had added taken out again
RECURSIVE SubtractAll(_, _, _)
SubtractAll(tally, first, slots) ==
    IF slots = {} THEN tally
    ELSE LET sl == CHOOSE x \in slots : TRUE
             m == first[sl]
         IN  SubtractAll(
                 AddWeight(tally, << sl[2], sl[3], m.value >>, m.grade, 0 - m.count),
                 first, slots \ {sl})

\* first with the messages in slots marked as adding no weight
Uncount(first, slots) ==
    [ sl \in DOMAIN first |->
        IF sl \in slots THEN [first[sl] EXCEPT !.counted = FALSE] ELSE first[sl] ]

\* an input that is not taken in
Ignore(p) == [ p |-> p, gossip |-> FALSE, equivocation |-> None ]

StoredMessage(in, counted) ==
    [ value |-> in.value, count |-> in.count, grade |-> in.grade,
      counted |-> counted ]

\* a sender already in equivocators: the message is kept for the gossip
\* decision and adds no weight
FromEquivocator(p, in) ==
    IF Slot(in) \in DOMAIN p.first
      THEN Ignore(p)
      ELSE [ p |-> [p EXCEPT
                      !.first = (Slot(in) :> StoredMessage(in, FALSE)) @@ p.first],
             gossip |-> TRUE,
             equivocation |-> None ]

\* mutation of Equivocate: the weight the signer had added stays in the tallies
EquivocateKeepWeight(p, in) ==
    [ p |-> [p EXCEPT !.equivocators = p.equivocators \cup {in.sender}],
      gossip |-> TRUE,
      equivocation |->
          Some(<< [sender |-> in.sender, iter |-> in.iter, round |-> in.round,
                   value |-> p.first[Slot(in)].value],
                  [sender |-> in.sender, iter |-> in.iter, round |-> in.round,
                   value |-> in.value] >>) ]

\* mutation of Equivocate: only the weight of the conflicting (iter, round) is
\* taken out, the signer's weight in other rounds stays
EquivocateNarrow(p, in) ==
    [ p |-> [p EXCEPT
               !.equivocators = p.equivocators \cup {in.sender},
               !.tally = SubtractAll(p.tally, p.first, {Slot(in)}),
               !.first = Uncount(p.first, {Slot(in)})],
      gossip |-> TRUE,
      equivocation |->
          Some(<< [sender |-> in.sender, iter |-> in.iter, round |-> in.round,
                   value |-> p.first[Slot(in)].value],
                  [sender |-> in.sender, iter |-> in.iter, round |-> in.round,
                   value |-> in.value] >>) ]

\* a message of the same (signer, iter, round) with another value: the proof
\* pairs the two, the signer joins equivocators and loses the weight it added
Equivocate(p, in) ==
    [ p |-> [p EXCEPT
               !.equivocators = p.equivocators \cup {in.sender},
               !.tally = SubtractAll(p.tally, p.first, Counted(p, in.sender)),
               !.first = Uncount(p.first, Counted(p, in.sender))],
      gossip |-> TRUE,
      equivocation |->
          Some(<< [sender |-> in.sender, iter |-> in.iter, round |-> in.round,
                   value |-> p.first[Slot(in)].value],
                  [sender |-> in.sender, iter |-> in.iter, round |-> in.round,
                   value |-> in.value] >>) ]

\* mutation of Duplicate: the message is taken in again and adds its weight again
DuplicateAdmits(p, in) ==
    [ p |-> [p EXCEPT !.tally = AddWeight(p.tally, Key(in), in.grade, in.count)],
      gossip |-> TRUE,
      equivocation |-> None ]

\* the message already held: nothing changes
Duplicate(p, in) == Ignore(p)

\* a new message: its eligibility count is added under (iter, round, value)
Admit(p, in) ==
    [ p |-> [p EXCEPT
               !.first = (Slot(in) :> StoredMessage(in, TRUE)) @@ p.first,
               !.tally = AddWeight(p.tally, Key(in), in.grade, in.count)],
      gossip |-> TRUE,
      equivocation |-> None ]

\* on_input: the state after the input, whether to gossip it, and the
\* equivocation proof (the pair of conflicting messages) if one was found
OnInput(p, in) ==
    IF in.grade = 0 THEN Ignore(p)
    ELSE IF in.sender \in p.equivocators THEN FromEquivocator(p, in)
    ELSE IF Slot(in) \in DOMAIN p.first /\ p.first[Slot(in)].value # in.value
      THEN Equivocate(p, in)
    ELSE IF Slot(in) \in DOMAIN p.first THEN Duplicate(p, in)
    ELSE Admit(p, in)

\* mutation of OnInitial: the candidates are dropped
OnInitialIgnored(p, candidates) == p

\* on_initial: seed the preround payload with the local candidate set
OnInitial(p, candidates) == [p EXCEPT !.initial = candidates]

\* the value sets whose weight under (iter, round) at grade >= g reaches the
\* threshold
Supported(p, iter, round, g) ==
    { v \in Values : Weight(p.tally, << iter, round, v >>, g) >= p.threshold }

\* option of the single element of S, None unless S has exactly one
Single(S) == IF Cardinality(S) = 1 THEN Some(CHOOSE v \in S : TRUE) ELSE None

\* the VRF signatures of the preround messages observed so far
PreroundVrfs(p) ==
    { VrfSignature(sl[1]) : sl \in { x \in DOMAIN p.first : x[3] = preround } }

Min(S) == CHOOSE x \in S : \A y \in S : x <= y

Message(iter, round, value) == [iter |-> iter, round |-> round, value |-> value]

NoOutput == [message |-> None, coin |-> None, result |-> None, terminated |-> FALSE]

\* the round after (iter, round): the preround is followed by the softlock of
\* iteration 0, a notify by the hardlock of the next iteration
Advance(p) ==
    IF p.Round = preround THEN [p EXCEPT !.Round = softlock]
    ELSE IF p.Round = notify THEN [p EXCEPT !.Iter = p.Iter + 1, !.Round = hardlock]
    ELSE [p EXCEPT !.Round = p.Round + 1]

\* mutation of CoinBit: the coin is taken from the greatest signature
CoinBitOfGreatest(vrfs) == (CHOOSE x \in vrfs : \A y \in vrfs : x >= y) % 2 = 1

\* the weak coin: the low bit of the least VRF signature
CoinBit(vrfs) == Min(vrfs) % 2 = 1

\* what executing the round p.Iter, p.Round puts out, from the tallies of the
\* round before it
Execution(p) ==
    CASE p.Round = preround ->
           [NoOutput EXCEPT !.message = Some(Message(0, preround, p.initial))]
      [] p.Round = hardlock ->
           LET r == IF p.Iter > 0
                      THEN Single(Supported(p, p.Iter - 1, notify, 2))
                      ELSE None
           IN  [NoOutput EXCEPT !.result = r, !.terminated = (r # None)]
      [] p.Round = softlock ->
           [NoOutput EXCEPT !.coin =
               IF PreroundVrfs(p) = {} THEN None
               ELSE Some(CoinBit(PreroundVrfs(p)))]
      [] p.Round = status ->
           [NoOutput EXCEPT !.message =
               Some(Message(p.Iter, status, UNION Supported(p, 0, preround, 1)))]
      [] p.Round = proposal ->
           [NoOutput EXCEPT !.message =
               Some(Message(p.Iter, proposal,
                            UNION (Supported(p, p.Iter, status, 1)
                                     \cup {p.locked[i] : i \in DOMAIN p.locked})))]
      [] p.Round = commit ->
           LET v == Single(Supported(p, p.Iter, proposal, 2))
           IN  [NoOutput EXCEPT !.message =
                   IF v = None THEN None ELSE Some(Message(p.Iter, commit, v[1]))]
      [] p.Round = notify ->
           LET v == Single(Supported(p, p.Iter, commit, 2))
           IN  [NoOutput EXCEPT !.message =
                   IF v = None THEN None ELSE Some(Message(p.Iter, notify, v[1]))]

\* the lock carried into iteration p.Iter: replaced at the hardlock by the
\* value the previous iteration's commits support at g2
Relock(p) ==
    IF p.Round = hardlock /\ p.Iter > 0
         /\ Single(Supported(p, p.Iter - 1, commit, 2)) # None
      THEN Single(Supported(p, p.Iter - 1, commit, 2))
      ELSE p.locked

\* next(): the output of the current round and the state advanced past it
Next(p) ==
    LET out == Execution(p)
    IN  [ p |-> Advance([p EXCEPT !.locked = Relock(p),
                                  !.result = IF out.result # None
                                               THEN out.result ELSE p.result]),
          out |-> out ]

(***************************************************************************)
(* The candidate proposals (Hare.selectProposals).                         *)
(***************************************************************************)
ATXIDs == {"a1", "a2", "a3"}

\* atxsdata.ATX of each ATX: its base tick height and its tick height
AtxHeader(id) ==
    CASE id = "a1" -> [BaseHeight |-> 1, Height |-> 2]
      [] id = "a2" -> [BaseHeight |-> 2, Height |-> 4]
      [] OTHER     -> [BaseHeight |-> 3, Height |-> 5]

Beacons == {"b1", "b2"}

\* the session's beacon
SessionBeacon == "b1"

\* what atxs.GetIDByEpochAndNodeID returns: an ATX of the signer published
\* in the epoch before the layer's, sql.ErrNotFound or another error
NotFound == "not found"

DbError == "error"

\* a store with nothing in it
NoStore == [ids |-> << >>, loaded |-> {}, proposals |-> {}]

\* atxsdata.Get: nil when the ATX is not loaded
Get(st, id) == IF id \in st.loaded THEN Some(AtxHeader(id)) ELSE None

\* the loop over session.signers, in the order of the slice: the ATX of lowest
\* tick height among those found and loaded
RECURSIVE MinOwn(_, _, _)
MinOwn(st, order, min) ==
    IF order = << >> THEN [err |-> FALSE, min |-> min]
    ELSE LET found == st.ids[Head(order)]
         IN  IF found = NotFound THEN MinOwn(st, Tail(order), min)
             ELSE IF found = DbError THEN [err |-> TRUE, min |-> min]
             ELSE LET own == Get(st, found)
                  IN  MinOwn(st, Tail(order),
                             IF min = None
                                  \/ (min # None /\ own # None
                                        /\ own[1].Height < min[1].Height)
                               THEN own ELSE min)

\* mutation of TooHigh: a proposal as high as the lowest own ATX is kept
TooHighAbove(header, min) == header.BaseHeight > min.Height

\* the proposal is of the future: header.BaseHeight >= min.Height
TooHigh(header, min) == header.BaseHeight >= min.Height

\* the proposals of the layer that get past the malicious and the
\* same-ATX checks, whose ATX is then looked up
Looked(st, mal) ==
    { p \in st.proposals :
        /\ ~(p.smesher \in mal \/ p.flagged)
        /\ Cardinality({ q \in st.proposals : q.atx = p.atx }) = 1 }

\* Hare.selectProposals, as the set of the ids it returns
selectProposals(st, mal, beacon, order) ==
    LET m == MinOwn(st, order, None)
    IN  IF m.err \/ m.min = None THEN {}
        ELSE IF \E p \in Looked(st, mal) : Get(st, p.atx) = None THEN {}
        ELSE { p.id : p \in { q \in Looked(st, mal) :
                                 /\ ~TooHigh(AtxHeader(q.atx), m.min[1])
                                 /\ q.beacon = beacon } }

(***************************************************************************)
(* State.                                                                  *)
(***************************************************************************)
VARIABLES
    proto,   \* the protocol state of the session under study
    now,     \* wall clock, in ticks since the start of the layer
    ret,     \* what the last call on the session returned
    nin,     \* inputs delivered so far
    pair,    \* SpecPair: the protocol states of two participants of one layer
    sessions,   \* Hare.sessions: the layers registered
    protos,     \* the protocol state of each layer's session, once created
    malicious,  \* atxsdata: the identities flagged malicious
    proofs,     \* identity store: malfeasance proofs saved, per identity
    handlers,   \* the Handler calls in progress, and their last verdict
    signers,    \* Hare.signers: the signers given to Register
    config,     \* Hare.config: the committee size and its upgrade
    store,      \* the database, atxsdata and the proposal store
    cancelled,  \* Hare.ctx is cancelled
    stopped,    \* Stop has returned
    loop,       \* the goroutine of Start: the layer it awaits, whether it runs
    tasks,      \* the goroutine of each session started by onLayer
    coins,      \* Hare.coins, the channel's buffer
    results,    \* Hare.results, the channel's buffer
    sentResults, \* how many ConsensusOutput were sent on results, per layer
    completed,  \* how many times patrol.CompleteHare was called, per layer
    inCharge,   \* the layers given to patrol.SetHareInCharge
    published,  \* << layer, sender >> of the messages given to pubsub.Publish
    stores,     \* hashsync: the ItemStore of each RangeSetReconciler
    conduit,    \* hashsync: the Conduit's messages to read and those sent
    syncer,     \* hashsync: the run of Initiate and of the Process calls
    cache,      \* txs: Cache.pending and Cache.cachedTXs
    db,         \* txs: the state database behind the cache
    mu,         \* locking: the goroutine that holds Hare.mu, if any
    protomu,    \* locking: the goroutine that holds each session's mutex
    threads,    \* locking: where each goroutine is, and on which layer
    pubsub,     \* whether pubsub.Publish can return an error
    server,     \* p2p/server: the Server, its streams and its goroutines
    identities, \* activation: IdentityStateStorage.states
    account,    \* txs: one accountCache and the transactions cached for it
    network     \* the messages two participants have sent and not yet received

hareVars ==
    << sessions, protos, malicious, proofs, handlers, signers, config, store >>

schedVars ==
    << cancelled, stopped, loop, tasks, coins, results, sentResults, completed,
       inCharge, published >>

\* the state of the packages beside hare3
\* the locking specification's own state
locking == << mu, protomu, threads >>

\* the packages looked at on their own
apart == << server, identities, account, network >>

elsewhere == << stores, conduit, syncer, cache, db, locking, pubsub, apart >>

vars == << proto, now, ret, nin, pair, hareVars, schedVars, elsewhere >>

\* pubsub.Publish never returns an error
Reliable == "reliable"

\* pubsub.Publish may return an error
Lossy == "lossy"

\* no server, identity storage or account cache was built
NoApart ==
    /\ server = << >>
    /\ identities = << >>
    /\ account = << >>
    /\ network = << >>

\* no reconciliation was set up
NoSync ==
    /\ stores = << >>
    /\ conduit = << >>
    /\ syncer = << >>

\* the variables SpecProto and SpecInput leave alone
besidesProto == << pair, elsewhere, hareVars, schedVars >>

\* no goroutine is followed for the locks it takes
NoLocking ==
    /\ mu = << >>
    /\ protomu = << >>
    /\ threads = << >>

\* no transaction cache was built
NoCache ==
    /\ cache = << >>
    /\ db = << >>
    /\ NoLocking

\* Hare after New, before Start
NotStarted ==
    /\ NoSync
    /\ NoCache
    /\ NoApart
    /\ pubsub = Reliable
    /\ signers = {}
    /\ config = Config
    /\ store = NoStore
    /\ cancelled = FALSE
    /\ stopped = FALSE
    /\ loop = [next |-> 0, running |-> FALSE, seen |-> << >>]
    /\ tasks = << >>
    /\ coins = << >>
    /\ results = << >>
    /\ sentResults = << >>
    /\ completed = << >>
    /\ inCharge = {}
    /\ published = {}

\* the input the validator builds from a message arriving at time t
Input(s, iter, round, v, t) ==
    [ sender |-> s, iter |-> iter, round |-> round, value |-> v,
      count |-> EligibilityCount(s),
      grade |-> Grade(t - roundStart(iter, round)) ]

\* the (iter, round) pairs a message can name and the session still executes
InputRounds ==
    { ir \in (0 .. (MaxAbs \div RoundsPerIter)) \X MessageRounds :
        /\ ir[2] = preround => ir[1] = 0
        /\ Absolute(ir[1], ir[2]) <= MaxAbs }

(***************************************************************************)
(* SpecProto: one session's state machine, driven by graded inputs and by  *)
(* a scheduler that calls next() at each round's deadline.                 *)
(***************************************************************************)
InitProto ==
    /\ proto = newProtocol(Threshold)
    /\ now = 0
    /\ ret = [op |-> "new", in |-> None, gossip |-> FALSE,
              equivocation |-> None, out |-> None]
    /\ nin = 0
    /\ pair = << >>
    /\ sessions = {}
    /\ protos = << >>
    /\ malicious = {}
    /\ proofs = << >>
    /\ handlers = << >>
    /\ NotStarted

Tick ==
    /\ now < roundStart(proto.Iter, proto.Round)
    /\ now' = now + 1
    /\ UNCHANGED << proto, ret, nin, besidesProto >>

Deliver ==
    /\ nin < MaxDeliveries
    /\ \E s \in Signers, ir \in InputRounds, v \in InputValues :
         LET in == Input(s, ir[1], ir[2], v, now)
             r == OnInput(proto, in)
         IN  /\ proto' = r.p
             /\ ret' = [op |-> "OnInput", in |-> Some(in), gossip |-> r.gossip,
                        equivocation |-> r.equivocation, out |-> None]
    /\ nin' = nin + 1
    /\ UNCHANGED << now, besidesProto >>

\* the scheduler's call at the deadline of the current round; the first call
\* follows on_initial with the node's candidate set
NextRound ==
    /\ now >= roundStart(proto.Iter, proto.Round)
    /\ Absolute(proto.Iter, proto.Round) <= MaxAbs
    /\ proto.result = None
    /\ \E candidates \in Candidates :
         LET p0 == IF proto.Round = preround THEN OnInitial(proto, candidates) ELSE proto
             r == Next(p0)
         IN  /\ proto.Round # preround => candidates = {}
             /\ proto' = r.p
             /\ ret' = [op |-> "Next", in |-> None, gossip |-> FALSE,
                        equivocation |-> None, out |-> Some(r.out)]
    /\ UNCHANGED << now, nin, besidesProto >>

ProtoStep == Tick \/ Deliver \/ NextRound

SpecProto == InitProto /\ [][ProtoStep]_vars

(***************************************************************************)
(* SpecInput: on_input alone, on inputs of every grade in any order, for   *)
(* the first and the last two message rounds of iteration 0.               *)
(***************************************************************************)
DirectRounds == { << 0, preround >>, << 0, commit >>, << 0, notify >> }

OnInputCall ==
    /\ nin < MaxInputs
    /\ \E s \in Signers, ir \in DirectRounds, v \in InputValues, g \in 0 .. 3 :
         LET in == [ sender |-> s, iter |-> ir[1], round |-> ir[2], value |-> v,
                     count |-> EligibilityCount(s), grade |-> g ]
             r == OnInput(proto, in)
         IN  /\ proto' = r.p
             /\ ret' = [op |-> "OnInput", in |-> Some(in), gossip |-> r.gossip,
                        equivocation |-> r.equivocation, out |-> None]
    /\ nin' = nin + 1
    /\ UNCHANGED << now, besidesProto >>

SpecInput == InitProto /\ [][OnInputCall]_vars

(***************************************************************************)
(* SpecPair: two participants of the same layer, each running the state    *)
(* machine behind its own prompt scheduler on a common clock.  Committee   *)
(* members send them notify messages; a member may send each of them a     *)
(* different one, and any message may arrive late or not at all.           *)
(***************************************************************************)
Participants == {"A", "B"}

NotifyIters == { i \in 0 .. (MaxPairAbs \div RoundsPerIter) : Absolute(i, notify) < MaxPairAbs }

InitPair ==
    /\ pair = [x \in Participants |-> newProtocol(Threshold)]
    /\ now = 0
    /\ nin = 0
    /\ proto = newProtocol(Threshold)
    /\ ret = [op |-> "new", in |-> None, gossip |-> FALSE,
              equivocation |-> None, out |-> None]
    /\ sessions = {}
    /\ protos = << >>
    /\ malicious = {}
    /\ proofs = << >>
    /\ handlers = << >>
    /\ NotStarted

PairTick ==
    /\ \A x \in Participants :
         pair[x].result = None => now < roundStart(pair[x].Iter, pair[x].Round)
    /\ \E x \in Participants : pair[x].result = None
    /\ now' = now + 1
    /\ UNCHANGED << pair, elsewhere, nin, proto, ret, hareVars, schedVars >>

PairDeliver ==
    /\ nin < MaxPairDeliveries
    /\ \E x \in Participants, s \in Signers, i \in NotifyIters, v \in InputValues :
         pair' = [pair EXCEPT ![x] = OnInput(pair[x], Input(s, i, notify, v, now)).p]
    /\ nin' = nin + 1
    /\ UNCHANGED << now, proto, ret, hareVars, schedVars, elsewhere >>

PairNext ==
    /\ \E x \in Participants :
         /\ now >= roundStart(pair[x].Iter, pair[x].Round)
         /\ Absolute(pair[x].Iter, pair[x].Round) <= MaxPairAbs
         /\ pair[x].result = None
         /\ pair' = [pair EXCEPT ![x] = Next(pair[x]).p]
    /\ UNCHANGED << now, nin, proto, ret, hareVars, schedVars, elsewhere >>

PairStep == PairTick \/ PairDeliver \/ PairNext

SpecPair == InitPair /\ [][PairStep]_vars

(***************************************************************************)
(* The gossip validator, Hare.Handler, against the session registry.       *)
(***************************************************************************)
Layers == EnableLayer .. (DisableLayer - 1)

\* nodeClock.LayerToTime, in ticks since the start of the first layer
LayerToTime(layer) == (layer - EnableLayer) * LayerDuration

\* the rounds named by the messages handed to the Handler
HandlerRounds == { << 0, preround >> }

\* what arrives from the transport: "undecodable" bytes, a message that fails
\* Message.Validate ("invalid"), one whose signature does not verify
\* ("badsig"), or a well-formed, well-signed message ("ok")
WireMessages ==
    { [kind |-> "undecodable", layer |-> 0, sender |-> "", iter |-> 0,
       round |-> 0, value |-> {}],
      [kind |-> "invalid", layer |-> 0, sender |-> "", iter |-> 0,
       round |-> 0, value |-> {}] }
    \cup [ kind : {"badsig"}, layer : {EnableLayer}, sender : {"s1"}, iter : {0},
           round : {preround}, value : {{"P1"}} ]
    \cup { m \in [ kind : {"ok"}, layer : Layers, sender : Signers, iter : {0},
                   round : Rounds, value : InputValues ] :
             /\ << m.iter, m.round >> \in HandlerRounds
             /\ (m.sender = "s2" => m.layer = EnableLayer /\ m.value = {"P1"}) }

\* a verdict: the error returned (or "nil") and whether it wraps
\* pubsub.ErrValidationReject
Verdict(error, reject) == [error |-> error, reject |-> reject]

\* mutation of Precheck: a zero grade is not turned away
PrecheckWithoutGrade(msg, registered, t) ==
    IF msg.kind = "undecodable" THEN Verdict("decoding error", TRUE)
    ELSE IF msg.kind = "invalid" THEN Verdict("validation", TRUE)
    ELSE IF msg.layer \notin registered THEN Verdict("not registered", FALSE)
    ELSE IF msg.kind = "badsig" THEN Verdict("invalid signature", TRUE)
    ELSE Verdict("nil", FALSE)

\* mutation of Precheck: a signature that does not verify is a soft error
PrecheckSoftSignature(msg, registered, t) ==
    IF msg.kind = "undecodable" THEN Verdict("decoding error", TRUE)
    ELSE IF msg.kind = "invalid" THEN Verdict("validation", TRUE)
    ELSE IF msg.layer \notin registered THEN Verdict("not registered", FALSE)
    ELSE IF msg.kind = "badsig" THEN Verdict("invalid signature", FALSE)
    ELSE IF Grade(t - (LayerToTime(msg.layer) + roundStart(msg.iter, msg.round))) = 0
      THEN Verdict("zero grade", FALSE)
    ELSE Verdict("nil", FALSE)

\* mutation of Precheck: the signature is not verified
PrecheckUnverified(msg, registered, t) ==
    IF msg.kind = "undecodable" THEN Verdict("decoding error", TRUE)
    ELSE IF msg.kind = "invalid" THEN Verdict("validation", TRUE)
    ELSE IF msg.layer \notin registered THEN Verdict("not registered", FALSE)
    ELSE IF Grade(t - (LayerToTime(msg.layer) + roundStart(msg.iter, msg.round))) = 0
      THEN Verdict("zero grade", FALSE)
    ELSE Verdict("nil", FALSE)

\* Handler up to the call of OnInput: the verdict that ends the call early,
\* or "nil" if the message goes on to the session
Precheck(msg, registered, t) ==
    IF msg.kind = "undecodable" THEN Verdict("decoding error", TRUE)
    ELSE IF msg.kind = "invalid" THEN Verdict("validation", TRUE)
    ELSE IF msg.layer \notin registered THEN Verdict("not registered", FALSE)
    ELSE IF msg.kind = "badsig" THEN Verdict("invalid signature", TRUE)
    ELSE IF Grade(t - (LayerToTime(msg.layer) + roundStart(msg.iter, msg.round))) = 0
      THEN Verdict("zero grade", FALSE)
    ELSE Verdict("nil", FALSE)

\* mutation of GossipVerdict: the message is accepted whatever OnInput said
GossipVerdictAccepting(gossip) == Verdict("nil", FALSE)

\* Handler after OnInput: dropped unless the session says gossip
GossipVerdict(gossip) ==
    IF ~gossip THEN Verdict("dropped by graded gossip", FALSE)
    ELSE Verdict("nil", FALSE)

Handlers == {"h1", "h2"}

IdleHandler ==
    [ pc |-> "idle", layer |-> 0, msg |-> None, input |-> None,
      malicious |-> FALSE, gossip |-> FALSE, equivocation |-> None ]

\* what a Handler call that returned was given and what it returned
Returned(layer, in, verdict) ==
    [op |-> "Handler", layer |-> layer, in |-> in, verdict |-> verdict]

InitHandler ==
    /\ sessions = {}
    /\ protos = << >>
    /\ malicious = {}
    /\ proofs = [s \in Signers |-> 0]
    /\ handlers = [h \in Handlers |-> IdleHandler]
    /\ NotStarted
    /\ now = 0
    /\ nin = 0
    /\ pair = << >>
    /\ proto = newProtocol(Threshold)
    /\ ret = [op |-> "new", in |-> None, gossip |-> FALSE,
              equivocation |-> None, out |-> None]

besidesHandler == << pair, elsewhere, proto, ret, schedVars >>

\* onLayer registers the session of a layer once the layer has started
OpenSession ==
    /\ nin < MaxCalls
    /\ \E l \in Layers :
         /\ l \notin DOMAIN protos
         /\ now >= LayerToTime(l)
         /\ protos' = (l :> newProtocol(SessionThreshold(config, l))) @@ protos
         /\ sessions' = sessions \cup {l}
    /\ UNCHANGED << malicious, proofs, handlers, signers, config, store, now, nin,
                    besidesHandler >>

\* the session's task ends and deletes the layer from the registry
CloseSession ==
    /\ nin < MaxCalls
    /\ \E l \in sessions : sessions' = sessions \ {l}
    /\ UNCHANGED << protos, malicious, proofs, handlers, signers, config, store, now, nin,
                    besidesHandler >>

HandlerTick ==
    /\ now < MaxTime
    /\ nin < MaxCalls
    /\ now' = now + 1
    /\ UNCHANGED << hareVars, nin, besidesHandler >>

\* Handler from the decoding to the grading: ends with a verdict, or goes on
\* holding the session found, the malicious flag read and the graded input
HandlerCall(h, msg) ==
    LET v == Precheck(msg, sessions, now)
    IN  IF v.error # "nil"
          THEN /\ ret' = Returned(msg.layer, Some(msg), v)
               /\ UNCHANGED handlers
          ELSE /\ ret' = [op |-> "Receive", layer |-> msg.layer,
                          in |-> Some(msg), verdict |-> v]
               /\ handlers' = [handlers EXCEPT ![h] =
                    [IdleHandler EXCEPT
                       !.pc = "input", !.layer = msg.layer, !.msg = Some(msg),
                       !.malicious = (msg.sender \in malicious),
                       !.input = Some(Input(msg.sender, msg.iter, msg.round,
                                            msg.value,
                                            now - LayerToTime(msg.layer)))]]

\* a Handler call begins, on one of the wire messages
HandlerReceive(h) ==
    /\ handlers[h].pc = "idle"
    /\ nin < MaxCalls
    /\ \E msg \in WireMessages : HandlerCall(h, msg)
    /\ nin' = nin + 1
    /\ UNCHANGED << sessions, protos, malicious, proofs, now, pair, elsewhere, proto,
                    signers, config, store, schedVars >>

\* session.OnInput, under the session's mutex
HandlerOnInput(h) ==
    /\ handlers[h].pc = "input"
    /\ LET l == handlers[h].layer
           r == OnInput(protos[l], handlers[h].input[1])
       IN  /\ protos' = [protos EXCEPT ![l] = r.p]
           /\ handlers' = [handlers EXCEPT
                 ![h].pc = "output", ![h].gossip = r.gossip,
                 ![h].equivocation = r.equivocation]
           /\ ret' = [op |-> "OnInput", layer |-> l, in |-> handlers[h].input,
                      verdict |-> Verdict("nil", FALSE)]
    /\ UNCHANGED << sessions, malicious, proofs, now, nin, pair, elsewhere, proto,
                    signers, config, store, schedVars >>

\* Handler after OnInput: the proof of an equivocation by a sender not read
\* as malicious is saved and the sender flagged, then the verdict is returned
HandlerReturn(h) ==
    /\ handlers[h].pc = "output"
    /\ LET sender == handlers[h].input[1].sender
           save == handlers[h].equivocation # None /\ ~handlers[h].malicious
       IN  /\ proofs' = IF save THEN [proofs EXCEPT ![sender] = @ + 1] ELSE proofs
           /\ malicious' = IF save THEN malicious \cup {sender} ELSE malicious
    /\ handlers' = [handlers EXCEPT ![h] = IdleHandler]
    /\ ret' = Returned(handlers[h].layer, handlers[h].input,
                       GossipVerdict(handlers[h].gossip))
    /\ UNCHANGED << sessions, protos, now, nin, pair, elsewhere, proto, signers, config, store,
                    schedVars >>

HandlerStep ==
    \/ OpenSession
    \/ CloseSession
    \/ HandlerTick
    \/ \E h \in Handlers : HandlerReceive(h) \/ HandlerOnInput(h) \/ HandlerReturn(h)

SpecHandler == InitHandler /\ [][HandlerStep]_vars

(***************************************************************************)
(* SpecRace: the Handler under a burst of messages of one signer.  The     *)
(* sessions are opened as the clock goes, then the signer's preround       *)
(* messages for the layers, with either value, are handed to concurrent    *)
(* Handler calls.                                                          *)
(***************************************************************************)
RaceMessages ==
    [ kind : {"ok"}, layer : Layers, sender : {"s1"}, iter : {0},
      round : {preround}, value : InputValues ]

RaceReceive(h) ==
    /\ handlers[h].pc = "idle"
    /\ nin < MaxRaceCalls
    /\ \E msg \in RaceMessages : HandlerCall(h, msg)
    /\ nin' = nin + 1
    /\ UNCHANGED << sessions, protos, malicious, proofs, now, pair, elsewhere, proto,
                    signers, config, store, schedVars >>

\* before the burst: the sessions are opened and the clock goes
RaceOpen == nin = 0 /\ OpenSession

RaceTick == nin = 0 /\ HandlerTick

RaceStep ==
    \/ RaceOpen
    \/ RaceTick
    \/ \E h \in Handlers : RaceReceive(h) \/ HandlerOnInput(h) \/ HandlerReturn(h)

SpecRace == InitHandler /\ [][RaceStep]_vars

(***************************************************************************)
(* SpecSched: the scheduler.  The goroutine of Start awaits each layer and *)
(* onLayer starts a session; the session's goroutine (run, onOutput)       *)
(* executes the rounds at their deadlines and sends coins and results to   *)
(* the channels, which a consumer empties; Stop cancels the context.       *)
(* Committee members' notify messages reach the registered sessions.       *)
(***************************************************************************)
\* the signers registered with this node
LocalSigners == {"s1"}

\* the for statement of Start: the layer awaited after next
NextLayer(next) == next + 1

\* mutation of Terminated: run goes on after a terminated output
TerminatedIgnored(out) == FALSE

\* run: the output ends the session
Terminated(out) == out.terminated

\* what onLayer finds: the node is not synced; else the beacon lookup fails,
\* gives the empty beacon, or gives a beacon
OnLayerFinds == {"not synced", "beacon error", "empty beacon", "beacon"}

\* mutation of Ready: the empty beacon is taken for a beacon
ReadyWithEmptyBeacon(found) == found \in {"beacon", "empty beacon"}

\* onLayer goes on to start a session
Ready(found) == found = "beacon"

\* the session goroutine as onLayer starts it
NewTask ==
    [ pc |-> "start", first |-> TRUE,
      current |-> [Iter |-> 0, Round |-> preround],
      walltime |-> 0, vrfs |-> {}, out |-> NoOutput,
      result |-> FALSE, err |-> "nil", signers |-> {}, sent |-> {} ]

\* Hare after New, with the signers registered, the configuration given to
\* New, the stores it reads and the pubsub it publishes to
ConstructedOver(registered, cfg, st, ps) ==
    /\ NoSync
    /\ NoCache
    /\ NoApart
    /\ pubsub = ps
    /\ signers = registered
    /\ config = cfg
    /\ store = st
    /\ sessions = {}
    /\ protos = << >>
    /\ malicious = {}
    /\ proofs = << >>
    /\ handlers = << >>
    /\ now = 0
    /\ nin = 0
    /\ pair = << >>
    /\ proto = newProtocol(Threshold)
    /\ ret = [op |-> "new", in |-> None, gossip |-> FALSE,
              equivocation |-> None, out |-> None]
    /\ cancelled = FALSE
    /\ stopped = FALSE
    /\ tasks = << >>
    /\ coins = << >>
    /\ results = << >>
    /\ sentResults = [l \in Layers |-> 0]
    /\ completed = [l \in Layers |-> 0]
    /\ inCharge = {}
    /\ published = {}

Constructed(registered, cfg, st) == ConstructedOver(registered, cfg, st, Reliable)

\* Hare once Start was called
Started(registered, cfg, st) ==
    /\ Constructed(registered, cfg, st)
    /\ loop = [next |-> EnableLayer, running |-> TRUE, seen |-> << >>]

InitSched == Started(LocalSigners, Config, NoStore)

besidesSched ==
    << pair, elsewhere, proto, ret, malicious, proofs, handlers, signers, config, store >>

\* mutation of After: the timer fires at once
AfterAtOnce(walltime) == TRUE

\* wallClock.After(walltime.Sub(wallClock.Now())): the timer has fired
After(walltime) == now >= walltime

\* some goroutine can take a step: it is not waiting for a later time, for
\* room in a channel or for the context
Due ==
    \/ /\ loop.running
       /\ cancelled \/ loop.next >= DisableLayer \/ now >= LayerToTime(loop.next)
    \/ \E l \in DOMAIN tasks :
         \/ tasks[l].pc \in {"start", "after", "returned"}
         \/ tasks[l].pc \in {"preround", "wait"}
              /\ (cancelled \/ After(tasks[l].walltime))
         \/ tasks[l].pc = "coin" /\ (cancelled \/ Len(coins) < ChannelCap)
         \/ tasks[l].pc = "result" /\ (cancelled \/ Len(results) < ChannelCap)
    \/ /\ cancelled /\ ~stopped /\ ~loop.running
       /\ \A l \in DOMAIN tasks : tasks[l].pc = "done"

\* the clock: time passes while every goroutine waits
SchedTick ==
    /\ now < MaxSchedTime
    /\ ~Due
    /\ now' = now + 1
    /\ UNCHANGED << sessions, protos, nin, besidesSched, schedVars >>

\* Stop: cancel the context, the first statement of Stop
Cancel ==
    /\ ~cancelled
    /\ cancelled' = TRUE
    /\ UNCHANGED << sessions, protos, now, nin, besidesSched, stopped, loop, tasks,
                    coins, results, sentResults, completed, inCharge, published >>

\* Stop: eg.Wait is over once the goroutine of Start and those of the
\* sessions have returned; Stop then closes coins and returns
StopReturn ==
    /\ cancelled
    /\ ~stopped
    /\ ~loop.running
    /\ \A l \in DOMAIN tasks : tasks[l].pc = "done"
    /\ stopped' = TRUE
    /\ UNCHANGED << sessions, protos, now, nin, besidesSched, cancelled, loop,
                    tasks, coins, results, sentResults, completed, inCharge,
                    published >>

\* onLayer: maps.Values(h.signers), a copy of the signers registered so far
Snapshot == signers

\* Start's goroutine: the awaited layer begins and onLayer runs, which
\* starts a session unless the node is not synced or has no beacon
AwaitLayer ==
    /\ loop.running
    /\ loop.next < DisableLayer
    /\ now >= LayerToTime(loop.next)
    /\ \E found \in OnLayerFinds :
         /\ IF Ready(found)
              THEN /\ inCharge' = inCharge \cup {loop.next}
                   /\ sessions' = sessions \cup {loop.next}
                   /\ protos' = (loop.next :> newProtocol(
                                    SessionThreshold(config, loop.next))) @@ protos
                   /\ tasks' = (loop.next :> [NewTask EXCEPT !.signers = Snapshot])
                                @@ tasks
              ELSE UNCHANGED << inCharge, sessions, protos, tasks >>
         /\ loop' = [loop EXCEPT !.next = NextLayer(loop.next),
                                 !.seen = (loop.next :> found) @@ loop.seen]
    /\ UNCHANGED << now, nin, besidesSched, cancelled, stopped, coins, results,
                    sentResults, completed, published >>

\* Start's goroutine returns: the context is cancelled or no layer is left
LoopReturn ==
    /\ loop.running
    /\ cancelled \/ loop.next >= DisableLayer
    /\ loop' = [loop EXCEPT !.running = FALSE]
    /\ UNCHANGED << sessions, protos, now, nin, besidesSched, cancelled, stopped, tasks,
                    coins, results, sentResults, completed, inCharge, published >>

\* mutation of SendCancelled: a send waits for room in the channel only
SendUnaware == FALSE

\* onOutput: the case <-h.ctx.Done() of the select around each send
SendCancelled == cancelled

\* onOutput: where it goes on after the coin, and after publishing
AfterCoin(out) == IF out.result # None THEN "result" ELSE "after"

AfterPublish(out) == IF out.coin # None THEN "coin" ELSE AfterCoin(out)

\* mutation of PublishCalls: the loop ends at the first error
PublishCallsUntilError(vrfs, failing) ==
    IF failing = {} THEN { [signer |-> s, ok |-> TRUE] : s \in vrfs }
    ELSE { [signer |-> CHOOSE s \in failing : TRUE, ok |-> FALSE] }

\* onOutput: the Publish calls of its loop over session.vrfs, an error of
\* which is logged
PublishCalls(vrfs, failing) ==
    { [signer |-> s, ok |-> s \notin failing] : s \in vrfs }

\* the signers for which Publish may return an error
MayFail(vrfs) == IF pubsub = Lossy THEN SUBSET vrfs ELSE {{}}

\* proto.Next() from state p, and the output handed to onOutput, which
\* publishes the message for each eligible signer; sent is the Publish calls
\* of the onOutput last made, until run goes on
Execute(l, t, p) ==
    \E r \in { Next(p) } :
    \E calls \in (IF r.out.message = None THEN {{}}
                  ELSE { PublishCalls(t.vrfs, failing) : failing \in MayFail(t.vrfs) }) :
        /\ protos' = [protos EXCEPT ![l] = r.p]
        /\ tasks' = [tasks EXCEPT ![l] =
              [t EXCEPT !.pc = AfterPublish(r.out), !.out = r.out,
                        !.result = t.result \/ (~t.first /\ r.out.result # None),
                        !.sent = calls]]
        /\ published' = published \cup { << l, c.signer >> : c \in calls }

\* mutation of SessionSigners: the session looks at the signers of Hare
SessionSignersLive(l) == signers

\* session.signers, over which run asks the oracle for eligibility
SessionSigners(l) == tasks[l].signers

\* the errors run returns
Cancelled == "context canceled"

NoResult == "terminated without result"

NoConsensus == "hare failed to reach consensus"

\* mutation of Failed: no return of run is taken for a failure
FailedNever(err) == FALSE

\* mutation of Failed: every return of run is taken for a failure
FailedAlways(err) == TRUE

\* the goroutine started by onLayer: run returned an error
Failed(err) == err # "nil"

\* mutation of AtLimit: the iterations limit is not looked at
AtLimitNever(current) == FALSE

\* run: the round executed is of the iteration that is the limit
AtLimit(current) == current.Iter = config.IterationsLimit

\* run returns, with an error or nil
Return(l, err) ==
    /\ tasks' = [tasks EXCEPT ![l].pc = "returned", ![l].err = err, ![l].sent = {}]
    /\ UNCHANGED << protos, published >>

\* mutation of active: every session waits for the preround and gives its
\* candidates to OnInitial
activeAlways(vrfs) == TRUE

\* run: some signer of the session is eligible in the preround
active(vrfs) == vrfs # {}

\* run up to the preround wait: eligibility for the preround; a session with
\* no eligible signer calls Next at once
SessionStart(l) ==
    /\ l \in DOMAIN tasks
    /\ tasks[l].pc = "start"
    /\ \E vrfs \in SUBSET SessionSigners(l) :
         LET t == [tasks[l] EXCEPT !.vrfs = vrfs,
                                   !.walltime = LayerToTime(l) + PreroundDelay]
         IN  IF active(vrfs)
               THEN /\ tasks' = [tasks EXCEPT ![l] = [t EXCEPT !.pc = "preround"]]
                    /\ UNCHANGED << protos, published >>
               ELSE Execute(l, t, protos[l])
    /\ UNCHANGED << sessions, now, nin, besidesSched, cancelled, stopped, loop, coins,
                    results, sentResults, completed, inCharge >>

\* the preround wait: at the deadline the candidates are given to OnInitial
\* and Next is called; a cancelled context returns its error
SessionPreround(l) ==
    /\ l \in DOMAIN tasks
    /\ tasks[l].pc = "preround"
    /\ \/ /\ After(tasks[l].walltime)
          /\ \E c \in Candidates : Execute(l, tasks[l], OnInitial(protos[l], c))
       \/ /\ cancelled
          /\ Return(l, Cancelled)
    /\ UNCHANGED << sessions, now, nin, besidesSched, cancelled, stopped, loop, coins,
                    results, sentResults, completed, inCharge >>

\* onOutput: the coin, if any, is sent unless the context is cancelled
SessionCoin(l) ==
    /\ l \in DOMAIN tasks
    /\ tasks[l].pc = "coin"
    /\ \/ /\ SendCancelled
          /\ Return(l, Cancelled)
          /\ UNCHANGED coins
       \/ /\ Len(coins) < ChannelCap
          /\ coins' = Append(coins, [layer |-> l, coin |-> tasks[l].out.coin[1]])
          /\ tasks' = [tasks EXCEPT ![l].pc = AfterCoin(tasks[l].out)]
          /\ UNCHANGED protos
    /\ UNCHANGED << sessions, now, nin, besidesSched, cancelled, stopped, loop,
                    results, sentResults, completed, inCharge, published >>

\* onOutput: the result, if any, is sent unless the context is cancelled
SessionResult(l) ==
    /\ l \in DOMAIN tasks
    /\ tasks[l].pc = "result"
    /\ \/ /\ SendCancelled
          /\ Return(l, Cancelled)
          /\ UNCHANGED << results, sentResults >>
       \/ /\ Len(results) < ChannelCap
          /\ results' = Append(results, [layer |-> l,
                                         proposals |-> tasks[l].out.result[1]])
          /\ sentResults' = [sentResults EXCEPT ![l] = @ + 1]
          /\ tasks' = [tasks EXCEPT ![l].pc = "after"]
          /\ UNCHANGED protos
    /\ UNCHANGED << sessions, now, nin, besidesSched, cancelled, stopped, loop,
                    coins, completed, inCharge, published >>

\* run after onOutput: return on a terminated output or at the iterations
\* limit, else set the next deadline, read the round to execute and the
\* signers' eligibility for it
SessionLoop(l) ==
    /\ l \in DOMAIN tasks
    /\ tasks[l].pc = "after"
    /\ IF ~tasks[l].first /\ Terminated(tasks[l].out)
         THEN Return(l, IF tasks[l].result THEN "nil" ELSE NoResult)
       ELSE IF ~tasks[l].first /\ AtLimit(tasks[l].current)
         THEN Return(l, NoConsensus)
       ELSE /\ \E vrfs \in (IF IsMessageRound(protos[l].Round)
                              THEN SUBSET SessionSigners(l) ELSE {{}}) :
                 tasks' = [tasks EXCEPT ![l] =
                    [@ EXCEPT !.pc = "wait", !.first = FALSE, !.sent = {},
                              !.walltime = @ + RoundDuration,
                              !.current = [Iter |-> protos[l].Iter,
                                           Round |-> protos[l].Round],
                              !.vrfs = vrfs]]
            /\ UNCHANGED protos
    /\ UNCHANGED << sessions, now, nin, besidesSched, cancelled, stopped, loop, coins,
                    results, sentResults, completed, inCharge, published >>

\* the round wait: at the deadline Next is called; a cancelled context
\* returns nil
SessionWait(l) ==
    /\ l \in DOMAIN tasks
    /\ tasks[l].pc = "wait"
    /\ \/ /\ After(tasks[l].walltime)
          /\ Execute(l, tasks[l], protos[l])
       \/ /\ cancelled
          /\ Return(l, "nil")
    /\ UNCHANGED << sessions, now, nin, besidesSched, cancelled, stopped, loop, coins,
                    results, sentResults, completed, inCharge >>

\* mutation of Unregister: the layer stays in the registry
UnregisterNothing(l) == sessions

\* delete(h.sessions, layer)
Unregister(l) == sessions \ {l}

\* the goroutine after run: a failed layer is given to patrol.CompleteHare,
\* and the session is deleted from the registry
SessionEnd(l) ==
    /\ l \in DOMAIN tasks
    /\ tasks[l].pc = "returned"
    /\ completed' = IF Failed(tasks[l].err)
                       THEN [completed EXCEPT ![l] = @ + 1] ELSE completed
    /\ sessions' = Unregister(l)
    /\ protos' = [k \in DOMAIN protos \ {l} |-> protos[k]]
    /\ tasks' = [tasks EXCEPT ![l] =
          [NewTask EXCEPT !.pc = "done", !.err = tasks[l].err,
                          !.result = tasks[l].result,
                          !.signers = tasks[l].signers]]
    /\ UNCHANGED << now, nin, besidesSched, cancelled, stopped, loop, coins,
                    results, sentResults, inCharge, published >>

\* the consumer of Coins()
TakeCoin ==
    /\ coins # << >>
    /\ coins' = Tail(coins)
    /\ UNCHANGED << sessions, protos, now, nin, besidesSched, cancelled, stopped, loop,
                    tasks, results, sentResults, completed, inCharge, published >>

\* the consumer of Results()
TakeResult ==
    /\ results # << >>
    /\ results' = Tail(results)
    /\ UNCHANGED << sessions, protos, now, nin, besidesSched, cancelled, stopped, loop,
                    tasks, coins, sentResults, completed, inCharge, published >>

\* the messages that reach the session of a layer: for the first layer a
\* committee member's preround message and its notify message of each
\* iteration, for the later layers its notify message of iteration 0
SchedMessages(l) ==
    IF l = EnableLayer
      THEN { << 0, preround >> }
             \cup { << i, notify >> : i \in 0 .. (IterationsLimit - 1) }
      ELSE { << 0, notify >> }

\* the message ir of a committee member, sent no earlier than the round
\* before its own and graded above g0, reaches the session of layer l
DeliverTo(l, ir) ==
    LET in == Input("s2", ir[1], ir[2], {"P1"}, now - LayerToTime(l))
    IN  /\ ir \in SchedMessages(l)
        /\ now - LayerToTime(l) + RoundDuration >= roundStart(ir[1], ir[2])
        /\ in.grade > 0
        /\ protos' = [protos EXCEPT ![l] = OnInput(protos[l], in).p]
        /\ nin' = nin + 1
        /\ UNCHANGED << sessions, now, besidesSched, schedVars >>

SchedDeliver ==
    /\ nin < MaxSchedDeliveries
    /\ \E l \in sessions, ir \in UNION { SchedMessages(k) : k \in Layers } :
         DeliverTo(l, ir)

SchedStep ==
    \/ SchedTick
    \/ Cancel
    \/ StopReturn
    \/ AwaitLayer
    \/ LoopReturn
    \/ \E l \in Layers :
         \/ SessionStart(l)
         \/ SessionPreround(l)
         \/ SessionCoin(l)
         \/ SessionResult(l)
         \/ SessionLoop(l)
         \/ SessionWait(l)
         \/ SessionEnd(l)
    \/ TakeCoin
    \/ TakeResult
    \/ SchedDeliver

SpecSched == InitSched /\ [][SchedStep]_vars

\* the steps of the goroutine of one session
Session(l) ==
    \/ SessionStart(l)
    \/ SessionPreround(l)
    \/ SessionCoin(l)
    \/ SessionResult(l)
    \/ SessionLoop(l)
    \/ SessionWait(l)
    \/ SessionEnd(l)

\* the Go runtime runs every goroutine that can take a step: the goroutine of
\* Start, those of the sessions and the caller of Stop once it has called
\* cancel.  Nothing is assumed of the consumers of Coins() and Results(), of
\* the network or of whether Stop is called at all.
SchedFairness ==
    /\ WF_vars(AwaitLayer \/ LoopReturn)
    /\ WF_vars(StopReturn)
    /\ \A l \in Layers : WF_vars(Session(l))

\* the messages that reach the sessions in the runs checked for liveness:
\* the preround and the first notify message, arriving before their round
LiveMessages == { << 0, preround >>, << 0, notify >> }

LiveDeliver ==
    /\ nin < MaxLiveDeliveries
    /\ \E l \in sessions, ir \in LiveMessages :
         /\ now - LayerToTime(l) <= roundStart(ir[1], ir[2])
         /\ DeliverTo(l, ir)

\* the clock of these runs: time passes while every goroutine waits and one
\* of them waits for a later time, which ends with the last session
LiveTick ==
    /\ ~Due
    /\ \/ loop.running
       \/ \E l \in DOMAIN tasks : tasks[l].pc \in {"preround", "wait"}
    /\ now' = now + 1
    /\ UNCHANGED << sessions, protos, nin, besidesSched, schedVars >>

LiveStep ==
    \/ LiveTick
    \/ Cancel
    \/ StopReturn
    \/ AwaitLayer
    \/ LoopReturn
    \/ \E l \in Layers :
         \/ SessionStart(l)
         \/ SessionPreround(l)
         \/ SessionCoin(l)
         \/ SessionResult(l)
         \/ SessionLoop(l)
         \/ SessionWait(l)
         \/ SessionEnd(l)
    \/ TakeCoin
    \/ TakeResult
    \/ LiveDeliver

SpecSchedLive == InitSched /\ [][LiveStep]_vars /\ SchedFairness

\* the signers Register is called with after Start
LateSigners == {"s3"}

\* Register: the signer is put in h.signers, under h.mu
Register(sig) ==
    /\ sig \notin signers
    /\ signers' = signers \cup {sig}
    /\ UNCHANGED << sessions, protos, now, nin, pair, elsewhere, proto, ret, malicious,
                    proofs, handlers, config, store, schedVars >>

\* the scheduler with signers coming while it runs; no message reaches the
\* sessions, so that no coin and no result is there to send
RegisterStep ==
    \/ \E sig \in LocalSigners \cup LateSigners : Register(sig)
    \/ LiveTick
    \/ Cancel
    \/ StopReturn
    \/ AwaitLayer
    \/ LoopReturn
    \/ \E l \in Layers :
         \/ SessionStart(l)
         \/ SessionPreround(l)
         \/ SessionLoop(l)
         \/ SessionWait(l)
         \/ SessionEnd(l)

SpecRegister == Started({}, Config, NoStore) /\ [][RegisterStep]_vars

\* the committee sizes and the committee upgrades of the configurations
\* looked at: the default size and the upgrade to 600 among them
CommitteeSizes == {3, 600, DefaultCommittee}

UpgradeLayers == 1 .. MaxUpgradeLayer

Configs ==
    { [Config EXCEPT !.Committee = c, !.CommitteeUpgrade = up] :
        c \in CommitteeSizes,
        up \in { << >> } \cup
               { << u >> : u \in [Layer : UpgradeLayers, Size : CommitteeSizes] } }

InitCommittee == \E cfg \in Configs : Started({}, cfg, NoStore)

\* onLayer for a layer around the upgrade: the session is made with the
\* threshold of its layer
SessionFor(layer) ==
    /\ layer \notin sessions
    /\ sessions' = sessions \cup {layer}
    /\ protos' = (layer :> newProtocol(SessionThreshold(config, layer))) @@ protos
    /\ UNCHANGED << now, nin, besidesSched, schedVars >>

CommitteeStep == \E layer \in 0 .. (MaxUpgradeLayer + 1) : SessionFor(layer)

SpecCommittee == InitCommittee /\ [][CommitteeStep]_vars

\* the configurations given to Validate: every iterations limit of a uint8,
\* with short delays and with the layers in and out of order
ValidateConfigs ==
    { [Config EXCEPT !.IterationsLimit = i, !.PreroundDelay = pd,
                     !.RoundDuration = rd, !.Enable = e, !.DisableLayer = d] :
        i \in 0 .. MaxIterationsLimit, pd \in 0 .. MaxDelay, rd \in 1 .. MaxDelay,
        e \in BOOLEAN, d \in {EnableLayer, DisableLayer} }

\* the zdist values: the short ones, and those around the time the longest
\* configurations end
ZDists ==
    (0 .. MaxShortZdist) \cup
    { pd + MaxIterationsLimit * RoundsPerIter * rd + d :
        pd \in 0 .. MaxDelay, rd \in 1 .. MaxDelay, d \in {-1, 0, 1} }

InitValidate == \E cfg \in ValidateConfigs : Started({}, cfg, NoStore)

ValidateCall ==
    /\ \E zdist \in ZDists :
         ret' = [op |-> "Validate", zdist |-> zdist, err |-> Validate(config, zdist)]
    /\ UNCHANGED << sessions, protos, now, nin, pair, elsewhere, proto, malicious, proofs,
                    handlers, signers, config, store, schedVars >>

SpecValidate == InitValidate /\ [][ValidateCall]_vars

\* the signers of the session whose candidates are selected
SelectSigners == {"s1", "s3"}

\* the proposals of the layer: one of each of three ids, or none
StoredProposals ==
    LET p1 == [id : {"P1"}, atx : ATXIDs, smesher : {"s1"}, flagged : BOOLEAN,
               beacon : Beacons]
        p2 == [id : {"P2"}, atx : ATXIDs, smesher : {"s2"}, flagged : {FALSE},
               beacon : {SessionBeacon}]
        p3 == [id : {"P3"}, atx : {"a1", "a3"}, smesher : {"s2"}, flagged : {FALSE},
               beacon : Beacons]
    IN  { a \cup b \cup c :
            a \in {{}} \cup { {x} : x \in p1 },
            b \in {{}} \cup { {x} : x \in p2 },
            c \in {{}} \cup { {x} : x \in p3 } }

\* the stores looked at: the ATX found for each signer, the ATXs loaded in
\* atxsdata (all, or all but one) and the proposals of the layer
Stores ==
    [ ids : { ("s1" :> a) @@ ("s3" :> b) :
                a \in ATXIDs \cup {NotFound, DbError}, b \in {NotFound, "a2"} },
      loaded : { ATXIDs \ m : m \in {{}} \cup { {x} : x \in ATXIDs } },
      proposals : StoredProposals ]

InitSelect == \E st \in Stores : Started(SelectSigners, Config, st)

\* atxsdata.SetMalicious, from a Handler call that found an equivocation
MarkMalicious ==
    /\ \E s \in Signers : s \notin malicious /\ malicious' = malicious \cup {s}
    /\ UNCHANGED << sessions, protos, now, nin, pair, elsewhere, proto, ret, proofs,
                    handlers, signers, config, store, schedVars >>

\* selectProposals for the session; maps.Values gave its signers in some order
SelectCall ==
    /\ \E order \in { << a, b >> : a, b \in signers } :
         /\ order[1] # order[2]
         /\ ret' = [op |-> "selectProposals", malicious |-> malicious,
                    result |-> selectProposals(store, malicious,
                                               SessionBeacon, order)]
    /\ UNCHANGED << sessions, protos, now, nin, pair, elsewhere, proto, malicious, proofs,
                    handlers, signers, config, store, schedVars >>

SelectStep == MarkMalicious \/ SelectCall

SpecSelect == InitSelect /\ [][SelectStep]_vars

\* the rounds of the messages whose arrivals are graded
GradeRounds == { << 0, r >> : r \in MessageRounds }

\* the grades given to the arrivals of the message of ret so far
Graded == IF ret.op = "grade" THEN ret.graded ELSE << >>

\* the validator grades an arrival of a message, the same message as before
GradeArrival ==
    /\ Cardinality(DOMAIN Graded) < MaxArrivals
    /\ \E ir \in GradeRounds :
         /\ ret.op = "grade" => ir = ret.ir
         /\ ret' = [op |-> "grade", ir |-> ir,
                    graded |-> (now :> Grade(now - roundStart(ir[1], ir[2])))
                                 @@ Graded]
    /\ UNCHANGED << sessions, protos, now, nin, pair, elsewhere, proto, malicious, proofs,
                    handlers, signers, config, store, schedVars >>

GradeTick ==
    /\ now < MaxGradeTime
    /\ now' = now + 1
    /\ UNCHANGED << sessions, protos, nin, pair, elsewhere, proto, ret, malicious, proofs,
                    handlers, signers, config, store, schedVars >>

GradeStep == GradeArrival \/ GradeTick

SpecGrade == Started({}, Config, NoStore) /\ [][GradeStep]_vars

\* nodeClock.CurrentLayer at time t, layer 0 starting at time 0
CurrentLayer(t) == t \div LayerDuration

Max(S) == CHOOSE x \in S : \A y \in S : x >= y

\* mutation of Enabled: only the configuration is looked at
EnabledByConfig(cfg, current, genesis) == cfg.EnableLayer

\* Start: the first layer awaited
Enabled(cfg, current, genesis) ==
    Max({current + 1, cfg.EnableLayer, genesis + 1})

\* Start: the layer the loop ends before; math.MaxUint32 when DisableLayer
\* is 0
Disabled(cfg) == IF cfg.DisableLayer > 0 THEN cfg.DisableLayer ELSE MaxUint32

\* the configurations of the participation range, DisableLayer 0 among them
RangeConfigs ==
    { [Config EXCEPT !.EnableLayer = e, !.DisableLayer = d] :
        e \in 0 .. MaxRangeLayer, d \in 0 .. (MaxRangeLayer + 2) }

InitRange ==
    /\ \E cfg \in RangeConfigs : Constructed({}, cfg, NoStore)
    /\ loop = [next |-> 0, running |-> FALSE, seen |-> << >>]

RangeTick ==
    /\ now < MaxRangeTime
    /\ now' = now + 1
    /\ UNCHANGED << sessions, protos, nin, besidesSched, schedVars >>

\* Start, at some time and with some effective genesis layer
RangeStart ==
    /\ ~loop.running
    /\ loop.next = 0
    /\ \E genesis \in 0 .. MaxRangeLayer :
         loop' = [next |-> Enabled(config, CurrentLayer(now), genesis),
                  running |-> TRUE, seen |-> << >>,
                  current |-> CurrentLayer(now), genesis |-> genesis,
                  opened |-> << >>]
    /\ UNCHANGED << sessions, protos, now, nin, besidesSched, cancelled, stopped,
                    tasks, coins, results, sentResults, completed, inCharge,
                    published >>

\* Start's goroutine: the awaited layer begins and onLayer runs, which
\* registers a session unless the node is not synced or has no beacon
RangeLayer ==
    /\ loop.running
    /\ loop.next < Disabled(config)
    /\ CurrentLayer(now) >= loop.next
    /\ \E found \in OnLayerFinds :
         IF Ready(found)
           THEN /\ sessions' = sessions \cup {loop.next}
                /\ protos' = (loop.next :> newProtocol(
                                 SessionThreshold(config, loop.next))) @@ protos
                /\ loop' = [loop EXCEPT !.next = NextLayer(loop.next),
                                        !.opened = Append(@, loop.next)]
           ELSE /\ loop' = [loop EXCEPT !.next = NextLayer(loop.next)]
                /\ UNCHANGED << sessions, protos >>
    /\ UNCHANGED << now, nin, besidesSched, cancelled, stopped, tasks, coins,
                    results, sentResults, completed, inCharge, published >>

\* Start's goroutine returns: no layer is left
RangeReturn ==
    /\ loop.running
    /\ loop.next >= Disabled(config)
    /\ loop' = [loop EXCEPT !.running = FALSE]
    /\ UNCHANGED << sessions, protos, now, nin, besidesSched, cancelled, stopped,
                    tasks, coins, results, sentResults, completed, inCharge,
                    published >>

\* the goroutine of a session ends and deletes the layer from the registry
RangeEnd ==
    /\ \E l \in sessions :
         /\ sessions' = Unregister(l)
         /\ protos' = [k \in DOMAIN protos \ {l} |-> protos[k]]
    /\ UNCHANGED << now, nin, besidesSched, schedVars >>

RangeStep == RangeTick \/ RangeStart \/ RangeLayer \/ RangeReturn \/ RangeEnd

SpecRange == InitRange /\ [][RangeStep]_vars

\* the environment the sessions are meant for: time passes, and the channels
\* returned by Coins() and Results() are read
Served ==
    /\ WF_vars(LiveTick)
    /\ WF_vars(TakeCoin)
    /\ WF_vars(TakeResult)

SpecSchedServed == SpecSchedLive /\ Served

(***************************************************************************)
(* Weights recomputed from the messages a session holds.                   *)
(***************************************************************************)
AllKeys == { << ir[1], ir[2], v >> : ir \in InputRounds, v \in Values }

\* what signer s's first message of k's (iter, round) weighs under key k at
\* grade >= g
Contribution(first, s, k, g) ==
    LET sl == << s, k[1], k[2] >>
    IN  IF sl \in DOMAIN first /\ first[sl].value = k[3] /\ first[sl].grade >= g
          THEN first[sl].count
          ELSE 0

RECURSIVE SumContributions(_, _, _, _)
SumContributions(first, S, k, g) ==
    IF S = {} THEN 0
    ELSE LET s == CHOOSE x \in S : TRUE
         IN  Contribution(first, s, k, g) + SumContributions(first, S \ {s}, k, g)

\* the weight the signers outside the equivocators give key k at grade >= g
HonestWeight(p, k, g) == SumContributions(p.first, Signers \ p.equivocators, k, g)

\* the step is a call of on_input
IsOnInput == nin' = nin + 1 /\ ret'.op = "OnInput"

(***************************************************************************)
(* C2 Threshold soundness: a result V comes out of next() only if, in some *)
(* iteration, the notify messages held for V at grade >= g2 from signers   *)
(* not known to equivocate weigh at least committee/2 + 1.                 *)
(***************************************************************************)
C2_ThresholdSoundness ==
    (ret.op = "Next" /\ ret.out[1].result # None) =>
        \E iter \in 0 .. proto.Iter :
            HonestWeight(proto, << iter, notify, ret.out[1].result[1] >>, 2)
                >= (Committee \div 2) + 1

C2_Witness ==
    /\ ret.op = "Next"
    /\ ret.out[1].result # None
    /\ ret.out[1].terminated

(***************************************************************************)
(* C4 as stated: every input whose (signer, iter, round) already holds a   *)
(* message of another value returns an equivocation proof pairing the two, *)
(* puts the signer into equivocators and takes the first message's weight  *)
(* out of its tally.                                                       *)
(***************************************************************************)
ProofOf(sl, v1, v2) ==
    Some(<< [sender |-> sl[1], iter |-> sl[2], round |-> sl[3], value |-> v1],
            [sender |-> sl[1], iter |-> sl[2], round |-> sl[3], value |-> v2] >>)

EquivocationHandled(in) ==
    LET sl == Slot(in)
        m == proto.first[sl]
        k == << sl[2], sl[3], m.value >>
    IN  /\ ret'.equivocation = ProofOf(sl, m.value, in.value)
        /\ in.sender \in proto'.equivocators
        /\ \A g \in 1 .. 3 :
             Weight(proto'.tally, k, g) =
                 Weight(proto.tally, k, g) - (IF g <= m.grade THEN m.count ELSE 0)
        /\ \A g \in 1 .. 3 :
             Weight(proto'.tally, Key(in), g) = Weight(proto.tally, Key(in), g)

Conflicting(in) ==
    /\ in.grade >= 1
    /\ Slot(in) \in DOMAIN proto.first
    /\ proto.first[Slot(in)].value # in.value

C4_Original ==
    [][IsOnInput => (Conflicting(ret'.in[1]) => EquivocationHandled(ret'.in[1]))]_vars

(***************************************************************************)
(* C4 amended: the above for a signer not yet in equivocators; a signer    *)
(* already there gets no further proof and changes no tally.  And at most  *)
(* one message of a (signer, iter, round) weighs in a tally: every tally   *)
(* is the sum of the first messages of the signers outside equivocators.   *)
(***************************************************************************)
C4_Equivocation ==
    [][IsOnInput =>
        LET in == ret'.in[1]
        IN  /\ (Conflicting(in) /\ in.sender \notin proto.equivocators)
                 => EquivocationHandled(in)
            /\ (Conflicting(in) /\ in.sender \in proto.equivocators)
                 => (ret'.equivocation = None /\ proto'.tally = proto.tally)
            /\ \A k \in AllKeys, g \in 1 .. 3 :
                 Weight(proto'.tally, k, g) = HonestWeight(proto', k, g)]_vars

C4_Witness ==
    /\ ret.op = "OnInput"
    /\ ret.equivocation # None
    /\ ret.in[1].sender \in proto.equivocators
    /\ Weight(proto.tally,
              << ret.in[1].iter, ret.in[1].round, ret.equivocation[1][1].value >>, 1) = 0

(***************************************************************************)
(* C5 Equivocator exclusion: a signer in equivocators weighs nothing in    *)
(* any tally, so every tally a later next() reads is the weight of the     *)
(* other signers' messages alone, also after further inputs of that signer.*)
(***************************************************************************)
C5_EquivocatorExclusion ==
    \A k \in AllKeys, g \in 1 .. 3 :
        Weight(proto.tally, k, g) = HonestWeight(proto, k, g)

\* an input of a signer already in equivocators was taken in for gossip
C5_Witness ==
    /\ ret.op = "OnInput"
    /\ ret.in[1].sender \in proto.equivocators
    /\ ret.equivocation = None
    /\ ret.gossip

(***************************************************************************)
(* C6 Weight monotonicity: in every step (on_input or next()) the weight   *)
(* under every key and grade stays or grows, except in the step that puts  *)
(* a signer into equivocators, where it drops by what that signer's        *)
(* message had added under the key.                                        *)
(***************************************************************************)
C6_WeightMonotonicity ==
    [][\A k \in AllKeys, g \in 1 .. 3 :
         \/ Weight(proto'.tally, k, g) >= Weight(proto.tally, k, g)
         \/ \E s \in Signers \ proto.equivocators :
              /\ proto'.equivocators = proto.equivocators \cup {s}
              /\ Weight(proto'.tally, k, g) =
                   Weight(proto.tally, k, g) - Contribution(proto.first, s, k, g)]_vars

C6_Witness ==
    /\ ret.op = "OnInput"
    /\ ret.equivocation # None
    /\ \E k \in AllKeys : k \in DOMAIN proto.tally /\ proto.tally[k][1] = 0

(***************************************************************************)
(* C7 Idempotence: an input equal to the one before it, or equal to the    *)
(* message its (signer, iter, round) already holds, changes no tally and   *)
(* returns gossip = false and no equivocation.                             *)
(***************************************************************************)
Held(in) ==
    /\ Slot(in) \in DOMAIN proto.first
    /\ proto.first[Slot(in)].value = in.value
    /\ proto.first[Slot(in)].count = in.count
    /\ proto.first[Slot(in)].grade = in.grade

C7_Idempotence ==
    [][(IsOnInput /\ (ret.in = ret'.in \/ Held(ret'.in[1]))) =>
          /\ proto'.tally = proto.tally
          /\ ~ret'.gossip
          /\ ret'.equivocation = None]_vars

\* a second delivery of a held message: nothing returned, the message still
\* weighs once
C7_Witness ==
    /\ ret.op = "OnInput"
    /\ ret.in[1].grade >= 1
    /\ ~ret.gossip
    /\ ret.in[1].sender \notin proto.equivocators
    /\ proto.first[Slot(ret.in[1])].value = ret.in[1].value
    /\ proto.first[Slot(ret.in[1])].grade = ret.in[1].grade
    /\ Weight(proto.tally, Key(ret.in[1]), 1) = ret.in[1].count

(***************************************************************************)
(* C3 as stated: two participants of a layer never emit different results, *)
(* whatever is delivered to each of them.                                  *)
(***************************************************************************)
BothDecided == pair["A"].result # None /\ pair["B"].result # None

DecidedIter(x) == pair[x].Iter - 1

ConflictingNotify(s, i) ==
    \/ s \in pair["A"].equivocators
    \/ s \in pair["B"].equivocators
    \/ /\ << s, i, notify >> \in DOMAIN pair["A"].first
       /\ << s, i, notify >> \in DOMAIN pair["B"].first
       /\ pair["A"].first[<< s, i, notify >>].value
            # pair["B"].first[<< s, i, notify >>].value

IsNew(p, in) == Slot(in) \notin DOMAIN p.first

\* the input conflicts with the message held and its sender is not yet among
\* the session's equivocators
FirstEquivocation(p, in) ==
    /\ Slot(in) \in DOMAIN p.first
    /\ p.first[Slot(in)].value # in.value
    /\ in.sender \notin p.equivocators

\* C9: OnInput says gossip exactly when the input's grade is at least g1 and
\* the message is new or the first equivocation of its sender in this
\* session; the Handler returns the soft "dropped by graded gossip" when
\* gossip is false and nil (accept) otherwise.
C9_GossipVerdict ==
    [][ \A h \in Handlers :
          /\ (handlers[h].pc = "input" /\ handlers'[h].pc = "output")
               => LET in == handlers[h].input[1]
                      p == protos[handlers[h].layer]
                  IN  handlers'[h].gossip =
                        (in.grade >= 1 /\ (IsNew(p, in) \/ FirstEquivocation(p, in)))
          /\ (handlers[h].pc = "output" /\ handlers'[h].pc = "idle")
               => /\ ret'.op = "Handler"
                  /\ ret'.verdict =
                       IF handlers[h].gossip
                         THEN Verdict("nil", FALSE)
                         ELSE Verdict("dropped by graded gossip", FALSE) ]_vars

\* a further message of a known equivocator was dropped after its first
\* equivocation had been accepted
C9_Witness ==
    /\ ret.op = "Handler"
    /\ ret.verdict = Verdict("dropped by graded gossip", FALSE)
    /\ ret.in[1].sender \in protos[ret.layer].equivocators
    /\ proofs[ret.in[1].sender] = 1

\* the message arrives after its round's start plus two round durations
Late(msg, t) ==
    t > LayerToTime(msg.layer) + roundStart(msg.iter, msg.round) + 2 * RoundDuration

\* C10: a well-signed message of a registered layer that arrives later than
\* its round's tolerance is returned "zero grade" by the Handler, and the call
\* changes no session (tallies, equivocators), no malicious flag and no proof,
\* and is over (OnInput is not called, the message is not accepted).
C10_ZeroGrade ==
    [][ (/\ nin' = nin + 1
         /\ ret'.in[1].kind = "ok"
         /\ ret'.in[1].layer \in sessions
         /\ Late(ret'.in[1], now))
        => /\ ret'.op = "Handler"
           /\ ret'.verdict = Verdict("zero grade", FALSE)
           /\ UNCHANGED << sessions, protos, malicious, proofs, handlers >> ]_vars

\* a late message was turned away by a session that holds messages
C10_Witness ==
    /\ ret.op = "Handler"
    /\ ret.verdict = Verdict("zero grade", FALSE)
    /\ ret.layer \in sessions
    /\ DOMAIN protos[ret.layer].first # {}

(***************************************************************************)
(* The results channel.                                                    *)
(***************************************************************************)
\* C1: whatever messages arrive, rounds are executed and whenever the context
\* is cancelled, at most one ConsensusOutput is sent on the results channel
\* for a layer.
C1_AtMostOneResult == \A l \in Layers : sentResults[l] <= 1

\* a session that was given messages sent its result and ended without error
C1_Witness ==
    \E l \in DOMAIN tasks :
        /\ sentResults[l] = 1
        /\ tasks[l].pc = "done"
        /\ tasks[l].err = "nil"
        /\ nin > 0

(***************************************************************************)
(* The Handler's verdicts.                                                 *)
(***************************************************************************)
\* C11: bytes that do not decode, a message that fails Validate and a
\* signature that does not verify are returned an error wrapping
\* ErrValidationReject; a message of a layer with no registered session is
\* returned a plain error and no session, flag or proof changes; a zero
\* grade, a gossip=false drop and a detected equivocation are never returned
\* an error wrapping ErrValidationReject.
C11_Verdicts ==
    [][ /\ (nin' = nin + 1) =>
             LET msg == ret'.in[1]
                 v == ret'.verdict
             IN  /\ msg.kind \in {"undecodable", "invalid"}
                      => ret'.op = "Handler" /\ v.reject
                 /\ (msg.kind \in {"ok", "badsig"} /\ msg.layer \notin sessions)
                      => /\ ret'.op = "Handler"
                         /\ v = Verdict("not registered", FALSE)
                         /\ UNCHANGED << sessions, protos, malicious, proofs,
                                         handlers >>
                 /\ (msg.kind = "badsig" /\ msg.layer \in sessions)
                      => ret'.op = "Handler" /\ v.reject
                 /\ (msg.kind = "ok" /\ msg.layer \in sessions) => ~v.reject
        /\ \A h \in Handlers :
             (handlers[h].pc = "output" /\ handlers'[h].pc = "idle")
               => ret'.op = "Handler" /\ ~ret'.verdict.reject ]_vars

\* a well-signed message of a layer whose session is not registered was
\* turned away while another session holds messages
C11_Witness ==
    /\ ret.op = "Handler"
    /\ ret.verdict = Verdict("not registered", FALSE)
    /\ ret.in[1].kind = "ok"
    /\ \E l \in DOMAIN protos : DOMAIN protos[l].first # {}

(***************************************************************************)
(* The proofs saved to the identity store.                                 *)
(***************************************************************************)
\* the sessions that hold s among their equivocators
EquivocatedIn(s) == { l \in DOMAIN protos : s \in protos[l].equivocators }

\* C12: under every interleaving of concurrent Handler calls, the identity
\* store is given the proof of an equivocating signer exactly once (no
\* signer is flagged malicious beforehand), and never the proof of a signer
\* that is not known to equivocate.
C12_ProofExactlyOnce ==
    (\A h \in Handlers : handlers[h].pc = "idle")
      => \A s \in Signers :
           proofs[s] = IF EquivocatedIn(s) # {} THEN 1 ELSE 0

(***************************************************************************)
(* Layers for which onLayer starts no session.                             *)
(***************************************************************************)
\* C13: for a layer at whose start the node is not synced, or the beacon
\* lookup fails or gives the empty beacon, the registry has no session, the
\* patrol is not told hare is in charge, there is no session goroutine and
\* nothing is published.
C13_NoSession ==
    \A l \in DOMAIN loop.seen :
        loop.seen[l] # "beacon"
          => /\ l \notin sessions
             /\ l \notin DOMAIN protos
             /\ l \notin inCharge
             /\ l \notin DOMAIN tasks
             /\ \A s \in LocalSigners : << l, s >> \notin published

\* onLayer found the empty beacon for a layer while the session of another
\* layer has published
C13_Witness ==
    /\ \E l \in DOMAIN loop.seen : loop.seen[l] = "empty beacon"
    /\ \E l \in DOMAIN tasks : \E s \in LocalSigners : << l, s >> \in published

(***************************************************************************)
(* How a session ends.                                                     *)
(***************************************************************************)
\* C14: when the round executed is of iteration IterationsLimit and Next gave
\* no result, run returns the failure to reach consensus; the session that
\* ended so has sent no result, its layer was given to CompleteHare exactly
\* once and is no longer in the registry.
C14_NonTermination ==
    /\ [](\A l \in DOMAIN tasks :
            (tasks[l].pc = "done" /\ tasks[l].err = NoConsensus)
              => /\ sentResults[l] = 0
                 /\ ~tasks[l].result
                 /\ completed[l] = 1
                 /\ l \notin sessions)
    /\ [][ \A l \in DOMAIN tasks :
             /\ (/\ tasks[l].pc = "after"
                 /\ tasks'[l].pc # "after"
                 /\ tasks[l].current.Iter = IterationsLimit
                 /\ tasks[l].out.result = None)
                  => tasks'[l].pc = "returned" /\ tasks'[l].err = NoConsensus
             /\ (tasks[l].pc = "returned" /\ tasks'[l].pc = "done"
                   /\ tasks[l].err = NoConsensus)
                  => /\ completed'[l] = completed[l] + 1
                     /\ l \notin sessions' ]_vars

\* a session that was given messages ended at the iterations limit
C14_Witness ==
    \E l \in DOMAIN tasks :
        /\ tasks[l].pc = "done"
        /\ tasks[l].err = NoConsensus
        /\ nin > 0

\* the sentence of the specification, without regard to cancellation: a
\* session for which Next gave a result ends without CompleteHare
C15_Original ==
    \A l \in DOMAIN tasks :
        /\ completed[l] > 0 => sentResults[l] = 0
        /\ (tasks[l].pc = "done" /\ tasks[l].result)
             => tasks[l].err = "nil" /\ completed[l] = 0

\* C15: CompleteHare is called for a layer only if no result was sent for it;
\* a session whose result was sent ends with nil and without CompleteHare, and
\* a session for which Next gave a result that was not sent is one whose send
\* was abandoned on cancellation: it ends with the context's error and with
\* CompleteHare called once.
C15_Exclusive ==
    \A l \in DOMAIN tasks :
        /\ completed[l] > 0 => sentResults[l] = 0
        /\ (tasks[l].pc = "done" /\ tasks[l].result /\ sentResults[l] > 0)
             => tasks[l].err = "nil" /\ completed[l] = 0
        /\ (tasks[l].pc = "done" /\ tasks[l].result /\ sentResults[l] = 0)
             => /\ cancelled
                /\ tasks[l].err = Cancelled
                /\ completed[l] = 1

\* one session ended in success, its result sent, and another one ended in
\* failure
C15_Witness ==
    \E l, k \in DOMAIN tasks :
        /\ tasks[l].pc = "done" /\ tasks[l].result /\ sentResults[l] = 1
        /\ completed[l] = 0
        /\ tasks[k].pc = "done" /\ completed[k] = 1

(***************************************************************************)
(* Stop.                                                                   *)
(***************************************************************************)
\* C16: once the context is cancelled, a session that waits for room in the
\* coins or the results channel gives the send up and its goroutine ends,
\* though nobody reads the channels, and Stop returns.
C16_StopReturns ==
    /\ cancelled ~> stopped
    /\ \A l \in Layers :
         (/\ cancelled
          /\ l \in DOMAIN tasks
          /\ \/ tasks[l].pc = "coin" /\ Len(coins) = ChannelCap
             \/ tasks[l].pc = "result" /\ Len(results) = ChannelCap)
           ~> (l \in DOMAIN tasks /\ tasks[l].pc = "done")

\* Stop has returned after a session, waiting to send to a full channel, gave
\* the send up
C16_Witness ==
    /\ stopped
    /\ \E l \in DOMAIN tasks :
         /\ tasks[l].pc = "done"
         /\ tasks[l].err = Cancelled
         /\ tasks[l].out.coin # None \/ tasks[l].result

(***************************************************************************)
(* The registry over the life of a session.                                *)
(***************************************************************************)
\* Hare.Running
Running == Cardinality(sessions)

\* the sessions whose goroutine was started by onLayer and has not ended
Alive == { l \in DOMAIN tasks : tasks[l].pc # "done" }

C18_SignerSnapshot ==
    /\ [](\A l \in DOMAIN tasks :
            /\ tasks[l].vrfs \subseteq tasks[l].signers
            /\ \A s \in LocalSigners \cup LateSigners :
                 << l, s >> \in published => s \in tasks[l].signers)
    /\ [][ /\ \A l \in DOMAIN tasks : tasks'[l].signers = tasks[l].signers
           /\ \A l \in Layers \ DOMAIN tasks :
                l \in DOMAIN tasks' => tasks'[l].signers = signers
           /\ signers' # signers => tasks' = tasks /\ published' = published
         ]_vars

\* a session made before the late signer was registered has published, and
\* so has the next session under the late signer's name
C18_Witness ==
    \E l, k \in DOMAIN tasks : \E s \in LateSigners :
        /\ s \in signers
        /\ s \notin tasks[l].signers
        /\ tasks[l].signers # {}
        /\ \E x \in tasks[l].signers : << l, x >> \in published
        /\ << k, s >> \in published

(***************************************************************************)
(* The committee and the threshold.                                        *)
(***************************************************************************)
\* C19: the threshold of a session is CommitteeFor(layer)/2 + 1, where
\* CommitteeFor is the upgrade's size from the upgrade's layer on and the
\* committee size otherwise; with a committee of 800 upgraded to 600 at layer
\* L it is 401 before L and 301 from L on.
C19_Threshold ==
    \A l \in DOMAIN protos :
        LET up == config.CommitteeUpgrade
            size == IF up # << >> /\ l >= up[1].Layer
                      THEN up[1].Size ELSE config.Committee
        IN  /\ protos[l].threshold = (size \div 2) + 1
            /\ (config.Committee = 800 /\ up # << >> /\ up[1].Size = 600)
                  => protos[l].threshold = IF l < up[1].Layer THEN 401 ELSE 301

\* with 800 upgraded to 600, sessions exist of the layer before the upgrade,
\* of the upgrade's layer and of the layer after
C19_Witness ==
    /\ config.Committee = 800
    /\ config.CommitteeUpgrade # << >>
    /\ config.CommitteeUpgrade[1].Size = 600
    /\ \A d \in {-1, 0, 1} : config.CommitteeUpgrade[1].Layer + d \in DOMAIN protos

(***************************************************************************)
(* Config.Validate.                                                        *)
(***************************************************************************)
\* C20: Validate returns nil only if
\* PreroundDelay + (IterationsLimit * RoundsPerIter) * RoundDuration <= zdist,
\* and it returns the error of terminating later whenever that bound is
\* exceeded, for every iterations limit from 0 to 255.
C20_Validate ==
    ret.op = "Validate" =>
        LET bound == config.PreroundDelay
                       + (config.IterationsLimit * RoundsPerIter) * config.RoundDuration
        IN  /\ ret.err = "nil" => bound <= ret.zdist
            /\ bound > ret.zdist <=> ret.err = TerminatesLater

\* the configuration with the largest iterations limit passes Validate with
\* zdist at the bound itself
C20_Witness ==
    /\ ret.op = "Validate"
    /\ config.IterationsLimit = 255
    /\ ret.err = "nil"
    /\ ret.zdist = config.PreroundDelay + 255 * RoundsPerIter * config.RoundDuration

(***************************************************************************)
(* The candidates of a session.                                            *)
(***************************************************************************)
\* the ATXs of the session's signers for the epoch before, as loaded
OwnAtxs ==
    { AtxHeader(store.ids[s]) : s \in { x \in SelectSigners :
                                         store.ids[x] \in store.loaded } }

\* the stored proposals not from a malicious identity and alone with their ATX
Eligible ==
    { p \in store.proposals :
        /\ p.smesher \notin ret.malicious
        /\ ~p.flagged
        /\ \A q \in store.proposals : q.atx = p.atx => q = p }

\* the sentence of the specification: the bound is the lowest base tick
\* height of the signers' ATXs, and the set is exactly the filtered one
C21_Original ==
    ret.op = "selectProposals" =>
        ret.result =
            IF OwnAtxs = {} THEN {}
            ELSE { p.id : p \in { q \in Eligible :
                      /\ \A own \in OwnAtxs :
                           AtxHeader(q.atx).BaseHeight < own.BaseHeight
                      /\ q.beacon = SessionBeacon } }

\* C21: the candidates are the stored proposals of the layer that are not
\* from a malicious identity, share their ATX with no other stored proposal,
\* have a base tick height strictly below the lowest tick height of the
\* signers' ATXs and carry the session's beacon; the set is empty if no
\* signer has a loaded ATX of the epoch before, if the ATX lookup of a signer
\* fails, or if the ATX of a proposal that is not malicious and is alone with
\* its ATX is not loaded.
C21_Candidates ==
    ret.op = "selectProposals" =>
        ret.result =
            IF \/ OwnAtxs = {}
               \/ \E s \in SelectSigners : store.ids[s] = DbError
               \/ \E p \in Eligible : p.atx \notin store.loaded
              THEN {}
              ELSE { p.id : p \in { q \in Eligible :
                        /\ \A own \in OwnAtxs :
                             AtxHeader(q.atx).BaseHeight < own.Height
                        /\ q.beacon = SessionBeacon } }

\* a call kept a proposal, dropped one of a malicious identity and dropped
\* one whose base tick height lies between the lowest base tick height and
\* the lowest tick height of the signers' ATXs
C21_Witness ==
    /\ ret.op = "selectProposals"
    /\ \E p \in store.proposals : p.smesher \in ret.malicious
    /\ \E p, q \in Eligible :
         /\ p.id \in ret.result
         /\ q.id \in ret.result
         /\ \E own \in OwnAtxs : AtxHeader(q.atx).BaseHeight >= own.BaseHeight
         /\ \A own \in OwnAtxs : AtxHeader(p.atx).BaseHeight < own.BaseHeight

(***************************************************************************)
(* The grade of an arrival.                                                *)
(***************************************************************************)
\* the delay of an arrival at time t past the expected start of the round
Delay(t) == t - roundStart(ret.ir[1], ret.ir[2])

Opened == IF "opened" \in DOMAIN loop THEN loop.opened ELSE << >>

\* every layer registered is at or after EnableLayer, after the layer current
\* at Start and after the effective genesis; the layers are registered in
\* strictly increasing order, and the registry holds registered layers only
InRange ==
    /\ \A i \in DOMAIN Opened :
         /\ Opened[i] >= config.EnableLayer
         /\ Opened[i] > loop.current
         /\ Opened[i] > loop.genesis
    /\ \A i, j \in DOMAIN Opened : i < j => Opened[i] < Opened[j]
    /\ \A l \in sessions : \E i \in DOMAIN Opened : Opened[i] = l

\* the sentence of the specification: no session at or after DisableLayer,
\* whatever DisableLayer is
C23_Original ==
    /\ InRange
    /\ \A i \in DOMAIN Opened : Opened[i] < config.DisableLayer

\* C23: sessions are registered only for layers from EnableLayer on, after
\* the layer current at Start and after the effective genesis, each layer at
\* most once and in increasing order, and before DisableLayer when
\* DisableLayer is above 0; a DisableLayer of 0 sets no end.
C23_Range ==
    /\ InRange
    /\ \A i \in DOMAIN Opened :
         config.DisableLayer > 0 => Opened[i] < config.DisableLayer

\* Start was called late: the first of two registered layers is past
\* EnableLayer, and the loop has ended at DisableLayer
C23_Witness ==
    /\ Len(Opened) >= 2
    /\ Opened[1] > config.EnableLayer
    /\ config.DisableLayer > 0
    /\ ~loop.running

(***************************************************************************)
(* hashsync: range set reconciliation.  Two RangeSetReconcilers, each over *)
(* its own ItemStore, exchange rounds of messages through a Conduit, as    *)
(* runSync drives them: Initiate on A, then Process on B and on A in turn. *)
(***************************************************************************)
MaxKey == 4
MaxSendRanges == 3
MaxRounds == 6

\* WithItemChunkSize(3), as the reconcilers under test are built
ItemChunkSize == 3
maxSampleSize == 1000

Keys == 1 .. MaxKey
\* a nil Ordered, a nil Iterator
NoKey == 0

NoError == "nil"
NoEndRound == "no end round marker"
DoneWithMessages == "non-item messages with 'done' marker"
BadXY == "bad X or Y"
UnexpectedType == "unexpected message type"
BadSampleSize == "bad minhash sample size"
CannotSplit == "panic: can't split range with count > 1"
EmptyFullRange == "panic: empty full min-min range"

rangeMessage(mtype, x, y, fp, count, keys) ==
    [ mtype |-> mtype, x |-> x, y |-> y, fp |-> fp, count |-> count,
      keys |-> keys ]

\* the key is in [x, y) on the circle of keys; x = y names the whole circle
Within(x, y, k) ==
    IF x < y THEN x <= k /\ k < y
    ELSE IF x > y THEN k >= x \/ k < y
    ELSE TRUE

\* how far k is from x, going up and around
Turn(x, k) == (k - x + MaxKey + 1) % (MaxKey + 1)

\* the one element of a set of one; a value computed once is named by
\* drawing it from such a set
The(S) == CHOOSE v \in S : TRUE

RECURSIVE Around(_, _)
\* the keys of S in the order an iterator meets them from x on
Around(x, S) ==
    IF S = {} THEN << >>
    ELSE The({ << k >> \o Around(x, S \ {k}) :
                 k \in { k \in S : \A o \in S : Turn(x, k) <= Turn(x, o) } })

\* ItemStore.Min: the iterator at the least key, nil for an empty store
StoreMin(st) == IF st = {} THEN NoKey ELSE Min(st)

\* ItemStore.GetRangeInfo: the fingerprint and count of the first `count`
\* keys of [x, y) (all of them if count < 0), the iterator at the first key
\* from x on and the one past the keys counted
GetRangeInfo(st, x, y, count) ==
    IF st = {}
    THEN [Fingerprint |-> {}, Count |-> 0, Start |-> NoKey, End |-> NoKey]
    ELSE The({ The({ The({
           LET n     == Cardinality(taken)
               after == { i \in 1 .. Len(rest) :
                            \A k \in taken : Turn(from, rest[i]) > Turn(from, k) }
           IN  [ Fingerprint |-> taken,
                 Count |-> n,
                 Start |-> Around(from, st)[1],
                 End |-> IF after # {} THEN rest[Min(after)]
                         ELSE Around(from, st)[1] ] :
             rest \in { Around(from, st \ taken) } }) :
             taken \in { { all[i] : i \in 1 .. (IF count >= 0 /\ count < Len(all)
                                                  THEN count ELSE Len(all)) } } }) :
             from \in { IF x = NoKey THEN StoreMin(st) ELSE x },
             all \in { Around(IF x = NoKey THEN StoreMin(st) ELSE x,
                              { k \in st : Within(IF x = NoKey THEN StoreMin(st) ELSE x,
                                                  IF y = NoKey THEN StoreMin(st) ELSE y,
                                                  k) }) } })

\* fingerprints that take two ranges of equally many keys for the same range
fingerprintByCount(a, b) == Cardinality(a) = Cardinality(b)

fingerprintEqual(a, b) == a = b

RECURSIVE Batches(_)
\* the item batches of at most ItemChunkSize keys each
Batches(keys) ==
    IF keys = << >> THEN << >>
    ELSE LET n == IF Len(keys) < ItemChunkSize THEN Len(keys) ELSE ItemChunkSize
         IN  << rangeMessage("ItemBatch", NoKey, NoKey, {}, 0, SubSeq(keys, 1, n)) >>
             \o Batches(SubSeq(keys, n + 1, Len(keys)))

\* Conduit.SendItems: count keys read from the iterator, which wraps around
SendItems(st, count, it) ==
    LET keys == Around(it, st)
    IN  Batches([ i \in 1 .. count |-> keys[((i - 1) % Len(keys)) + 1] ])

SendFingerprint(x, y, fp, count) ==
    << rangeMessage("Fingerprint", x, y, fp, count, << >>) >>
SendEmptySet == << rangeMessage("EmptySet", NoKey, NoKey, {}, 0, << >>) >>
SendEmptyRange(x, y) == << rangeMessage("EmptyRange", x, y, {}, 0, << >>) >>
SendRangeContents(x, y, count) ==
    << rangeMessage("RangeContents", x, y, {}, count, << >>) >>
SendEndRound == << rangeMessage("EndRound", NoKey, NoKey, {}, 0, << >>) >>
SendDone == << rangeMessage("Done", NoKey, NoKey, {}, 0, << >>) >>
SendProbeResponse(st, x, y, fp, count, sampleSize, it) ==
    << rangeMessage("ProbeResponse", x, y, fp, count,
                    IF sampleSize = 0 THEN << >>
                    ELSE SubSeq(Around(it, st), 1, sampleSize)) >>

processSubrange(st, x, y) ==
    LET info == GetRangeInfo(st, x, y, -1)
    IN  IF info.Count = 0 THEN SendEmptyRange(x, y)
        ELSE SendFingerprint(x, y, info.Fingerprint, info.Count)

Handled(sent, done, err) == [sent |-> sent, done |-> done, err |-> err]

\* handleMessage: what it sends, whether the message left nothing to do
handleMessage(st, maxSendRange, msg) ==
    LET whole == \/ msg.mtype = "EmptySet"
                 \/ msg.mtype = "Probe" /\ msg.x = NoKey /\ msg.y = NoKey
    IN
    IF whole /\ st = {}
    THEN Handled(IF msg.mtype = "Probe"
                 THEN SendProbeResponse(st, NoKey, NoKey, {}, 0, 0, NoKey)
                 ELSE << >>, TRUE, NoError)
    ELSE IF ~whole /\ (msg.x = NoKey \/ msg.y = NoKey)
    THEN Handled(<< >>, FALSE, BadXY)
    ELSE
    LET x    == IF whole THEN StoreMin(st) ELSE msg.x
        y    == IF whole THEN StoreMin(st) ELSE msg.y
        info == GetRangeInfo(st, x, y, -1)
    IN
    IF msg.mtype \in {"EmptyRange", "RangeContents", "EmptySet"}
    THEN IF info.Count # 0
         THEN Handled(SendItems(st, info.Count, info.Start), FALSE, NoError)
         ELSE Handled(<< >>, TRUE, NoError)
    ELSE IF msg.mtype = "Probe"
    THEN IF msg.count > maxSampleSize
         THEN Handled(<< >>, FALSE, BadSampleSize)
         ELSE LET sampleSize ==
                      IF fingerprintEqual(msg.fp, info.Fingerprint) THEN 0
                      ELSE IF msg.count > info.Count THEN info.Count
                      ELSE msg.count
              IN  Handled(SendProbeResponse(st, x, y, info.Fingerprint,
                                            info.Count, sampleSize, info.Start),
                          TRUE, NoError)
    ELSE IF msg.mtype # "Fingerprint"
    THEN Handled(<< >>, FALSE, UnexpectedType)
    ELSE IF fingerprintEqual(info.Fingerprint, msg.fp)
    THEN Handled(<< >>, TRUE, NoError)
    ELSE IF info.Count <= maxSendRange
    THEN IF info.Count # 0
         THEN Handled(SendRangeContents(x, y, info.Count)
                      \o SendItems(st, info.Count, info.Start), FALSE, NoError)
         ELSE Handled(SendEmptyRange(x, y), FALSE, NoError)
    ELSE
    LET count == (info.Count + 1) \div 2
        part  == GetRangeInfo(st, x, y, count)
    IN  IF part.End = NoKey THEN Handled(<< >>, FALSE, CannotSplit)
        ELSE Handled(processSubrange(st, x, part.End)
                     \o processSubrange(st, part.End, y), FALSE, NoError)

\* InitiateBounded: the first round of messages
InitiateBounded(st, maxSendRange, x, y) ==
    IF x = NoKey THEN Handled(SendEmptySet \o SendEndRound, FALSE, NoError)
    ELSE LET info == GetRangeInfo(st, x, y, -1)
         IN  IF info.Count = 0 THEN Handled(<< >>, FALSE, EmptyFullRange)
             ELSE IF info.Count < maxSendRange
             THEN Handled(SendRangeContents(x, y, info.Count)
                          \o SendItems(st, info.Count, info.Start)
                          \o SendEndRound, FALSE, NoError)
             ELSE Handled(SendFingerprint(x, y, info.Fingerprint, info.Count)
                          \o SendEndRound, FALSE, NoError)

Initiate(st, maxSendRange) ==
    InitiateBounded(st, maxSendRange, StoreMin(st), StoreMin(st))

\* getMessages: the messages up to the first end-of-round or done marker
getMessages(msgs) ==
    LET marks == { i \in 1 .. Len(msgs) : msgs[i].mtype \in {"EndRound", "Done"} }
    IN  IF marks = {}
        THEN [msgs |-> msgs, done |-> FALSE, err |-> NoEndRound]
        ELSE [msgs |-> SubSeq(msgs, 1, Min(marks) - 1),
              done |-> msgs[Min(marks)].mtype = "Done",
              err |-> NoError]

Add(st, keys) == st \cup { keys[i] : i \in 1 .. Len(keys) }

RECURSIVE ProcessMessages(_, _, _)
\* the loop of Process over the round's messages: item batches join the
\* store, the other messages are handled as long as no error came up
ProcessMessages(msgs, maxSendRange, acc) ==
    IF msgs = << >> THEN acc
    ELSE The({ IF msg.mtype = "ItemBatch"
               THEN ProcessMessages(rest, maxSendRange,
                                    [was EXCEPT !.st = Add(was.st, msg.keys)])
               ELSE IF was.err # NoError
               THEN ProcessMessages(rest, maxSendRange, was)
               ELSE The({ ProcessMessages(rest, maxSendRange,
                                          [was EXCEPT !.sent = was.sent \o h.sent,
                                                      !.done = was.done /\ h.done,
                                                      !.err = h.err]) :
                            h \in { handleMessage(was.st, maxSendRange, msg) } }) :
                 msg \in { Head(msgs) }, rest \in { Tail(msgs) }, was \in { acc } })

\* mutation of DoneRound: the messages before the marker are not looked at
DoneRoundUnchecked(st, msgs) ==
    [st |-> st, sent |-> << >>, done |-> TRUE, err |-> NoError]

\* Process on a round that ends with the done marker: an error if a message
\* came before the marker
DoneRound(st, msgs) ==
    IF msgs # << >>
    THEN [st |-> st, sent |-> << >>, done |-> FALSE, err |-> DoneWithMessages]
    ELSE [st |-> st, sent |-> << >>, done |-> TRUE, err |-> NoError]

\* Process: the store afterwards, the messages sent, done and the error
Process(st, maxSendRange, incoming) ==
    LET got == getMessages(incoming)
    IN  IF got.done
        THEN DoneRound(st, got.msgs)
        ELSE LET acc == ProcessMessages(got.msgs, maxSendRange,
                                        [st |-> st, sent |-> << >>,
                                         done |-> TRUE, err |-> got.err])
             IN  IF acc.err # NoError
                 THEN [acc EXCEPT !.done = FALSE]
                 ELSE [acc EXCEPT !.sent = acc.sent \o (IF acc.done THEN SendDone
                                                        ELSE SendEndRound)]

\* no Hare was built: its variables stay as they are declared
NoHare ==
    /\ sessions = {}
    /\ protos = << >>
    /\ malicious = {}
    /\ proofs = << >>
    /\ handlers = << >>
    /\ now = 0
    /\ nin = 0
    /\ pair = << >>
    /\ proto = newProtocol(Threshold)
    /\ ret = [op |-> "new", in |-> None, gossip |-> FALSE,
              equivocation |-> None, out |-> None]
    /\ signers = {}
    /\ config = Config
    /\ store = NoStore
    /\ cancelled = FALSE
    /\ stopped = FALSE
    /\ loop = [next |-> 0, running |-> FALSE, seen |-> << >>]
    /\ tasks = << >>
    /\ coins = << >>
    /\ results = << >>
    /\ sentResults = << >>
    /\ completed = << >>
    /\ inCharge = {}
    /\ published = {}

\* before the stores are filled and the reconcilers built
InitSync ==
    /\ stores = [A |-> {}, B |-> {}]
    /\ syncer = [pc |-> "New", aDone |-> FALSE, bDone |-> FALSE, i |-> 0,
                 err |-> NoError, maxSendRange |-> 1, a |-> {}, b |-> {},
                 marked |-> FALSE]
    /\ conduit = [msgs |-> << >>, resp |-> << >>]
    /\ NoCache
    /\ NoApart
    /\ pubsub = Reliable
    /\ NoHare

besidesSync ==
    << proto, now, ret, nin, pair, hareVars, schedVars, cache, db, locking, pubsub,
       apart >>

\* makeStore for A and for B, and NewRangeSetReconciler over each with one
\* maxSendRange, which panics unless that is positive
SyncNew ==
    /\ syncer.pc = "New"
    /\ \E a \in SUBSET Keys, b \in SUBSET Keys, m \in 1 .. MaxSendRanges :
         /\ stores' = [A |-> a, B |-> b]
         /\ syncer' = [syncer EXCEPT !.pc = "Initiate", !.maxSendRange = m,
                                     !.a = a, !.b = b]
    /\ UNCHANGED << conduit, besidesSync >>

\* syncA.Initiate(fc)
SyncInitiate ==
    /\ syncer.pc = "Initiate"
    /\ \E r \in { Initiate(stores.A, syncer.maxSendRange) } :
           /\ conduit' = [conduit EXCEPT !.resp = conduit.resp \o r.sent]
           /\ syncer' = [syncer EXCEPT
                           !.err = r.err,
                           !.pc = IF r.err = NoError THEN "ProcessB" ELSE "Failed"]
    /\ UNCHANGED << stores, besidesSync >>

\* one half of a round of doRunSync: gotoResponse, then Process by the
\* reconciler whose turn it is; both done ends the run
SyncProcess(who) ==
    /\ syncer.pc = "Process" \o who
    /\ who = "B" => syncer.i < MaxRounds
    /\ \E r \in { Process(stores[who], syncer.maxSendRange, conduit.resp) } :
       LET aDone == IF who = "A" THEN r.done ELSE syncer.aDone
           bDone == IF who = "B" THEN r.done ELSE syncer.bDone
       IN  /\ stores' = [stores EXCEPT ![who] = r.st]
           /\ conduit' = [msgs |-> << >>, resp |-> r.sent]
           /\ syncer' = [syncer EXCEPT
                           !.err = r.err,
                           !.aDone = aDone,
                           !.bDone = bDone,
                           !.i = IF who = "A" /\ r.err = NoError /\ ~(aDone /\ bDone)
                                 THEN syncer.i + 1 ELSE syncer.i,
                           !.pc = IF r.err # NoError THEN "Failed"
                                  ELSE IF aDone /\ bDone THEN "End"
                                  ELSE IF who = "B" THEN "ProcessA"
                                  ELSE "ProcessB"]
    /\ UNCHANGED besidesSync

SyncStep == SyncNew \/ SyncInitiate \/ SyncProcess("B") \/ SyncProcess("A")

SpecSync == InitSync /\ [][SyncStep]_vars

(***************************************************************************)
(* C24: set reconciliation converges.  For any two item stores and any     *)
(* maxSendRange >= 1, Initiate on A followed by Process on B and on A in   *)
(* turn never returns an error, leaves both stores equal to the union of   *)
(* what they held at the start once both reconcilers are done, and gets    *)
(* there: every call moves the run on, and there are no more rounds than   *)
(* the union has keys, plus one.                                           *)
(***************************************************************************)
Union == syncer.a \cup syncer.b
Ended == syncer.pc = "End"

C24_Safe ==
    /\ syncer.err = NoError
    /\ syncer.pc # "Failed"
    /\ syncer.i <= Cardinality(Union)
    /\ Ended => stores.A = Union /\ stores.B = Union

\* how far the run has come: two calls of Process to a round
Position ==
    2 * syncer.i + (CASE syncer.pc = "New" -> 0
                      [] syncer.pc = "Initiate" -> 1
                      [] syncer.pc = "ProcessB" -> 2
                      [] OTHER -> 3)

\* every call either ends the run or moves it on, and nothing follows the end
C24_Progress ==
    /\ ~Ended
    /\ Ended' \/ Position' > Position

MaxCacheLayer == 2
MaxCacheCalls == 2

Addresses == {"p", "q"}
TXs == {"t1", "t2", "t3"}
\* types.Transaction: the principal and the nonce of each transaction
Transaction(tid) ==
    CASE tid = "t1" -> [ID |-> tid, Principal |-> "p", Nonce |-> 0]
      [] tid = "t2" -> [ID |-> tid, Principal |-> "p", Nonce |-> 1]
      [] tid = "t3" -> [ID |-> tid, Principal |-> "q", Nonce |-> 0]

EmptyBlockID == "empty"
BlockIDs == {EmptyBlockID, "b1"}

errBadNonce == "bad nonce"
errLayerNotInOrder == "layers not applied in order"
errLastApplied == "cache get last applied"
errAddResults == "add results"
errAddTo == "add to block"

\* NewCache, over a database in which no layer is applied
NewCache == [pending |-> << >>, cachedTXs |-> << >>]
NewDb == [lastApplied |-> 0, results |-> {}, txs |-> {}, included |-> {}]

\* stateFunc: the next nonce of an account once the results in db are applied
stateF(d, addr) ==
    LET applied == { Transaction(t).Nonce : t \in
                       { t \in d.results : Transaction(t).Principal = addr } }
    IN  IF applied = {} THEN 0 ELSE Max(applied) + 1

has(c, tid) == tid \in DOMAIN c.cachedTXs

Account(c, addr) == c.pending[addr]

createAcctIfNotPresent(c, d, addr) ==
    IF addr \in DOMAIN c.pending THEN c
    ELSE [c EXCEPT !.pending =
            [a \in DOMAIN c.pending \cup {addr} |->
               IF a = addr
               THEN [startNonce |-> stateF(d, addr), txs |-> {}, moreInDB |-> FALSE]
               ELSE c.pending[a]]]

shouldEvict(ac) == ac.txs = {} /\ ~ac.moreInDB

cleanupAccounts(c, accounts) ==
    [c EXCEPT !.pending =
       [a \in { a \in DOMAIN c.pending :
                  ~(a \in accounts /\ shouldEvict(c.pending[a])) } |->
          c.pending[a]]]

\* the transactions a map of transaction ids is left with, and given
Without(f, tids) == [t \in DOMAIN f \ tids |-> f[t]]
With(f, tids, ntx) == [t \in DOMAIN f \cup tids |-> IF t \in tids THEN ntx ELSE f[t]]

\* transactions.GetAcctPendingFromNonce: the account's transactions in db
\* from the nonce on that have no result
GetAcctPendingFromNonce(d, addr, nonce) ==
    { t \in d.txs \ d.results :
        Transaction(t).Principal = addr /\ Transaction(t).Nonce >= nonce }

\* accountCache.resetAfterApply: the account forgets its transactions and
\* takes the pending ones of db from the next nonce on
resetAfterApply(c, d, addr) ==
    LET ac      == c.pending[addr]
        nonce   == stateF(d, addr)
        reload  == GetAcctPendingFromNonce(d, addr, nonce)
        cleared == Without(c.cachedTXs, ac.txs)
    IN  [ pending |-> [c.pending EXCEPT ![addr] =
                          [startNonce |-> nonce, txs |-> reload,
                           moreInDB |-> IF reload = {} THEN FALSE ELSE ac.moreInDB]],
          cachedTXs |-> With(cleared, reload,
                             [Layer |-> 0, Block |-> EmptyBlockID]) ]

RECURSIVE resetAll(_, _, _)
resetAll(c, d, accounts) ==
    IF accounts = {} THEN c
    ELSE LET a == CHOOSE a \in accounts : TRUE
         IN  resetAll(resetAfterApply(c, d, a), d, accounts \ {a})

RECURSIVE createAll(_, _, _)
createAll(c, d, accounts) ==
    IF accounts = {} THEN c
    ELSE LET a == CHOOSE a \in accounts : TRUE
         IN  createAll(createAcctIfNotPresent(c, d, a), d, accounts \ {a})

\* an order check that only refuses the layers already applied
checkApplyOrderPast(lastApplied, toApply) ==
    IF toApply <= lastApplied THEN errLayerNotInOrder ELSE NoError

checkApplyOrder(lastApplied, toApply) ==
    IF toApply # lastApplied + 1 THEN errLayerNotInOrder ELSE NoError

\* the inclusions of a transaction db knows in the layers after one, in
\* blocks and in proposals
InBlocks(d, tid, after) ==
    { i \in d.included : i.tid = tid /\ i.lid > after /\ i.bid # EmptyBlockID }
InProposals(d, tid, after) ==
    { i \in d.included : i.tid = tid /\ i.lid > after /\ i.bid = EmptyBlockID }

\* the inclusion of the lowest layer
Lowest(S) == CHOOSE i \in S : \A j \in S : i.lid <= j.lid

\* getNextIncluded: the next block with the transaction, else the next
\* proposal, else none
getNextIncluded(d, tid, after) ==
    IF InBlocks(d, tid, after) # {}
    THEN [Layer |-> Lowest(InBlocks(d, tid, after)).lid,
          Block |-> Lowest(InBlocks(d, tid, after)).bid]
    ELSE IF InProposals(d, tid, after) # {}
    THEN [Layer |-> Lowest(InProposals(d, tid, after)).lid, Block |-> EmptyBlockID]
    ELSE [Layer |-> 0, Block |-> EmptyBlockID]

\* applyEmptyLayer: the cached transactions of the layer go to their next
\* inclusion
applyEmptyLayer(c, d, lid) ==
    [c EXCEPT !.cachedTXs =
       [t \in DOMAIN c.cachedTXs |->
          IF c.cachedTXs[t].Layer = lid
          THEN getNextIncluded(d, t, lid)
          ELSE c.cachedTXs[t]]]

\* NanoTX.UpdateLayerMaybe: the layer is taken if the transaction has none
\* or a higher one
UpdateLayerMaybe(ntx, lid, bid) ==
    IF ntx.Layer = 0 \/ lid < ntx.Layer
    THEN [Layer |-> lid, Block |-> bid]
    ELSE ntx

\* Cache.updateLayer: the cached transactions after the loop over tids,
\* which returns at the first id that is not cached
RECURSIVE updateLayer(_, _, _, _)
updateLayer(txs, lid, bid, tids) ==
    IF tids = << >> THEN txs
    ELSE IF Head(tids) \notin DOMAIN txs THEN txs
    ELSE updateLayer([txs EXCEPT ![Head(tids)] = UpdateLayerMaybe(@, lid, bid)],
                     lid, bid, Tail(tids))

\* addToProposal, addToBlock: db records the inclusion of every id
addTo(d, lid, bid, tids) ==
    [d EXCEPT !.included =
       @ \cup { [tid |-> tids[i], lid |-> lid, bid |-> bid] : i \in DOMAIN tids }]

\* the lists of transaction ids of a proposal or a block
TidLists ==
    { << >> } \cup { << t >> : t \in TXs }
              \cup { q \in { << t, u >> : t \in TXs, u \in TXs } : q[1] # q[2] }

\* LinkTXsWithProposal and LinkTXsWithBlock: the error, the cache and db
\* afterwards; fails is the failure of db to record the inclusion
LinkTXs(c, d, lid, bid, tids, fails) ==
    IF tids = << >> THEN [err |-> NoError, cache |-> c, db |-> d]
    ELSE IF fails THEN [err |-> errAddTo, cache |-> c, db |-> d]
    ELSE [err |-> NoError,
          cache |-> [c EXCEPT !.cachedTXs = updateLayer(@, lid, bid, tids)],
          db |-> addTo(d, lid, bid, tids)]

Principals(tids) == { Transaction(t).Principal : t \in tids }

\* Cache.ApplyLayer: the error returned, the cache and db afterwards.
\* readFails and storeFails are the failures of db when it reads the last
\* applied layer and when it stores the results
ApplyLayer(c, d, lid, bid, rsts, ineffective, readFails, storeFails) ==
    LET order == IF readFails THEN errLastApplied
                 ELSE checkApplyOrder(d.lastApplied, lid)
    IN
    IF order # NoError THEN [err |-> order, cache |-> c, db |-> d]
    ELSE IF bid = EmptyBlockID
    THEN [err |-> NoError, cache |-> applyEmptyLayer(c, d, lid), db |-> d]
    ELSE IF storeFails THEN [err |-> errAddResults, cache |-> c, db |-> d]
    ELSE
    LET stored      == [d EXCEPT !.results = d.results \cup rsts,
                                 !.txs = d.txs \cup rsts \cup ineffective]
        byPrincipal == Principals(rsts)
        toCleanup   == Principals(rsts \cup ineffective)
        created     == createAll(c, stored, byPrincipal)
        applied     == resetAll(created, stored, byPrincipal)
        toReset     == { a \in Principals(ineffective) \ byPrincipal :
                           a \in DOMAIN c.pending }
                       \cup { a \in DOMAIN applied.pending \ toCleanup :
                                applied.pending[a].moreInDB }
        reset       == resetAll(applied, stored, toReset)
    IN  [err |-> NoError, cache |-> cleanupAccounts(reset, toCleanup),
         db |-> stored]

InitCache ==
    /\ cache = NewCache
    /\ db = NewDb
    /\ NoLocking
    /\ NoSync
    /\ NoApart
    /\ pubsub = Reliable
    /\ NoHare

besidesCache ==
    << proto, now, pair, hareVars, schedVars, stores, conduit, syncer, locking, pubsub,
       apart >>

\* Cache.Add
CacheAdd ==
    /\ nin < MaxCacheCalls
    /\ \E tid \in TXs :
         LET tx      == Transaction(tid)
             created == createAcctIfNotPresent(cache, db, tx.Principal)
             ac      == created.pending[tx.Principal]
         IN  IF tx.Nonce < ac.startNonce
             THEN /\ cache' = cleanupAccounts(created, {tx.Principal})
                  /\ db' = db
                  /\ ret' = [op |-> "Add", tx |-> tid, err |-> errBadNonce]
             ELSE /\ cache' =
                       [ pending |-> [created.pending EXCEPT ![tx.Principal].txs =
                                        ac.txs \cup {tid}],
                         cachedTXs |-> With(created.cachedTXs, {tid},
                                            [Layer |-> 0, Block |-> EmptyBlockID]) ]
                  /\ db' = [db EXCEPT !.txs = db.txs \cup {tid}]
                  /\ ret' = [op |-> "Add", tx |-> tid, err |-> NoError]
    /\ nin' = nin + 1
    /\ UNCHANGED besidesCache

\* Cache.LinkTXsWithProposal
LinkTXsWithProposal ==
    /\ nin < MaxCacheCalls
    /\ \E tids \in TidLists, lid \in 1 .. MaxCacheLayer + 1, fails \in BOOLEAN :
         \E r \in { LinkTXs(cache, db, lid, EmptyBlockID, tids, fails) } :
            /\ cache' = r.cache
            /\ db' = r.db
            /\ ret' = [op |-> "LinkTXsWithProposal", lid |-> lid, tids |-> tids,
                       err |-> r.err]
    /\ nin' = nin + 1
    /\ UNCHANGED besidesCache

\* Cache.LinkTXsWithBlock
LinkTXsWithBlock ==
    /\ nin < MaxCacheCalls
    /\ \E tids \in TidLists, lid \in 1 .. MaxCacheLayer + 1, fails \in BOOLEAN :
         \E r \in { LinkTXs(cache, db, lid, "b1", tids, fails) } :
            /\ cache' = r.cache
            /\ db' = r.db
            /\ ret' = [op |-> "LinkTXsWithBlock", lid |-> lid, tids |-> tids,
                       err |-> r.err]
    /\ nin' = nin + 1
    /\ UNCHANGED besidesCache

\* Cache.ApplyLayer, for any layer, block and transactions
CacheApplyLayer ==
    /\ nin < MaxCacheCalls
    /\ \E lid \in 0 .. MaxCacheLayer + 1, bid \in BlockIDs,
          rsts \in SUBSET TXs, ineffective \in SUBSET TXs,
          readFails \in BOOLEAN, storeFails \in BOOLEAN :
         /\ rsts \cap ineffective = {}
         /\ Cardinality(ineffective) <= 1
         /\ ~(readFails /\ storeFails)
         /\ \E r \in { ApplyLayer(cache, db, lid, bid, rsts, ineffective,
                                  readFails, storeFails) } :
              /\ cache' = r.cache
              /\ db' = r.db
              /\ ret' = [op |-> "ApplyLayer", lid |-> lid, bid |-> bid,
                         results |-> rsts,
                         lastApplied |-> IF readFails THEN None
                                         ELSE Some(db.lastApplied),
                         err |-> r.err]
    /\ nin' = nin + 1
    /\ UNCHANGED besidesCache

\* layers.SetApplied, by the mesh once the layer is executed
SetApplied ==
    /\ db.lastApplied < MaxCacheLayer
    /\ ret.op = "ApplyLayer"
    /\ ret.err = NoError
    /\ db' = [db EXCEPT !.lastApplied = ret.lid]
    /\ ret' = [op |-> "SetApplied", lid |-> ret.lid, err |-> NoError]
    /\ UNCHANGED << cache, nin, besidesCache >>

CacheStep == CacheAdd \/ LinkTXsWithBlock \/ CacheApplyLayer \/ SetApplied

SpecCache == InitCache /\ [][CacheStep]_vars

(***************************************************************************)
(* C25: Cache.ApplyLayer accepts layers only in order.  A call for a layer *)
(* other than lastApplied + 1 returns errLayerNotInOrder and leaves every  *)
(* account cache, the cached transactions and the stored results as they   *)
(* were.                                                                   *)
(***************************************************************************)
OutOfOrder ==
    /\ nin' = nin + 1
    /\ ret'.op = "ApplyLayer"
    /\ ret'.lastApplied # None
    /\ ret'.lid # ret'.lastApplied[1] + 1

C25_Refused ==
    OutOfOrder =>
        /\ ret'.err = errLayerNotInOrder
        /\ cache' = cache
        /\ db' = db

C25_InOrder == [][C25_Refused]_vars

\* a layer too far ahead was refused, with results to store and a mempool
\* that the call would have reset
C25_Witness ==
    /\ ret.op = "ApplyLayer"
    /\ ret.err = errLayerNotInOrder
    /\ ret.lid > ret.lastApplied[1] + 1
    /\ ret.bid # EmptyBlockID
    /\ ret.results # {}
    /\ ret.results \subseteq DOMAIN cache.cachedTXs
    /\ db.lastApplied = 1
    /\ db.results # {}

(***************************************************************************)
(* C26: only messages that passed the signature verification with a        *)
(* non-zero grade reach on_input.  Whenever a Handler call gets to         *)
(* session.OnInput, its message was decoded, passed Message.Validate, the  *)
(* session of its layer was found in the registry, the signature verified  *)
(* and the oracle's grade, which the input carries, is not zero; and a     *)
(* session's protocol state changes by such a call only.                   *)
(***************************************************************************)
\* the Handler call h makes its call of session.OnInput in this step
OnInputReached(h) == handlers[h].pc = "input" /\ handlers'[h].pc = "output"

Admissible(h) ==
    LET msg == handlers[h].msg[1]
        in  == handlers[h].input[1]
    IN  /\ msg.kind = "ok"
        /\ msg.layer \in DOMAIN protos
        /\ handlers[h].layer = msg.layer
        /\ in.sender = msg.sender
        /\ in.grade > 0

C26_Gate ==
    /\ \A h \in Handlers : OnInputReached(h) => Admissible(h)
    /\ \A l \in DOMAIN protos :
         protos'[l] # protos[l] =>
           \E h \in Handlers : OnInputReached(h) /\ handlers[h].layer = l

C26_OnInputGate == [][C26_Gate]_vars

\* OnInput took a message graded below the best, after the session of its
\* layer had left the registry
C26_Witness ==
    \E h \in Handlers :
       /\ handlers[h].pc = "output"
       /\ handlers[h].msg[1].kind = "ok"
       /\ handlers[h].input[1].grade \in {1, 2}
       /\ handlers[h].layer \notin sessions

(***************************************************************************)
(* C27: next() for a round is called only after the round's wall-clock     *)
(* deadline, layer start + preround delay + k round durations for the k-th *)
(* round after the preround, and the deadlines of consecutive calls are    *)
(* one round duration apart.  As stated, for every round of every session, *)
(* the preround of a session with no eligible signer included; as the code *)
(* has it, for every round but that one, which run executes at once.       *)
(***************************************************************************)
\* run calls proto.Next() for the session of layer l in this step
NextCalled(l) ==
    /\ l \in DOMAIN tasks
    /\ l \in DOMAIN tasks'
    /\ tasks[l].pc \in {"start", "preround", "wait"}
    /\ tasks'[l].pc \in {"coin", "result", "after"}

\* the round that call executes: the preround first, then the round read
\* from the protocol before the wait
RoundCalled(l) ==
    IF tasks[l].pc = "wait" THEN tasks[l].current
    ELSE [Iter |-> 0, Round |-> preround]

\* its deadline on the wall clock
Deadline(l) ==
    LayerToTime(l) + roundStart(RoundCalled(l).Iter, RoundCalled(l).Round)

\* the deadline run waits for is the round's, and each is one round
\* duration after the one before
OneRoundApart(l) ==
    /\ tasks'[l].walltime = Deadline(l)
    /\ tasks[l].pc = "wait" =>
         Deadline(l) = LayerToTime(l) + PreroundDelay
                       + (Absolute(tasks[l].current.Iter, tasks[l].current.Round) - 1)
                         * RoundDuration

\* the preround of a session in which no local signer is eligible
IdlePreround(l) == tasks[l].pc = "start"

C27_Original ==
    [][\A l \in Layers :
         NextCalled(l) => now >= Deadline(l) /\ OneRoundApart(l)]_vars

C27_Deadlines ==
    [][\A l \in Layers :
         NextCalled(l) =>
           /\ ~IdlePreround(l) => now >= Deadline(l)
           /\ OneRoundApart(l)]_vars

\* a session with an eligible signer is past its preround and two more
\* rounds, each executed at its deadline or later
C27_Witness ==
    \E l \in DOMAIN tasks :
       /\ tasks[l].pc = "after"
       /\ tasks[l].vrfs # {}
       /\ ~tasks[l].first
       /\ tasks[l].walltime >= LayerToTime(l) + PreroundDelay + 2 * RoundDuration
       /\ now >= tasks[l].walltime

(***************************************************************************)
(* C28: once the context is cancelled no session publishes a message: no   *)
(* step taken with the context cancelled is a Next call whose message      *)
(* onOutput publishes for an eligible signer.                              *)
(***************************************************************************)
\* onOutput publishes the message of this step's Next call for the
\* eligible signers of the session of layer l
Publishes(l) ==
    /\ NextCalled(l)
    /\ tasks'[l].out.message # None
    /\ tasks'[l].vrfs # {}

C28_NoPublishAfterCancel ==
    [][cancelled => \A l \in Layers : ~Publishes(l)]_vars

(***************************************************************************)
(* Locking: Hare.mu, the mutex of the registry Hare.sessions, and the      *)
(* mutex each session's protocol takes inside OnInput, OnInitial and Next. *)
(* Every goroutine is followed from one Lock or Unlock to the next.        *)
(***************************************************************************)
\* no goroutine holds the mutex
Free == "free"

\* the goroutine of Start, which calls onLayer
StartLoop == "start"

\* a caller of Register or Running
Caller == "caller"

\* the goroutine onLayer starts for the session of layer l
RunOf(l) == "run" \o ToString(l)

Goroutines == Handlers \cup {StartLoop, Caller} \cup { RunOf(l) : l \in Layers }

Thread(pc, layer) == [pc |-> pc, layer |-> layer]

\* mutation of muAfterLookup: the Handler keeps Hare.mu after the lookup
muKeptAfterLookup(h) == h

\* Handler: h.mu.Unlock() follows the lookup
muAfterLookup(h) == Free

InitLocks ==
    /\ mu = Free
    /\ protomu = [l \in Layers |-> Free]
    /\ threads = [g \in Goroutines |->
                    IF g \in Handlers \cup {StartLoop, Caller}
                      THEN Thread("idle", EnableLayer)
                      ELSE Thread("absent", CHOOSE l \in Layers : RunOf(l) = g)]
    /\ NoHare
    /\ NoSync
    /\ NoApart
    /\ pubsub = Reliable
    /\ cache = << >>
    /\ db = << >>

besidesLocks ==
    << proto, now, ret, nin, pair, schedVars, stores, conduit, syncer, cache, db,
       protos, malicious, proofs, handlers, config, store, pubsub, apart >>

\* g moves to pc, on layer l
Goto(g, pc, l) == threads' = [threads EXCEPT ![g] = Thread(pc, l)]

\* Handler: h.mu.Lock() for the lookup of the message's layer
HandlerLock(h) ==
    /\ threads[h].pc = "idle"
    /\ mu = Free
    /\ mu' = h
    /\ \E l \in Layers : Goto(h, "lookup", l)
    /\ UNCHANGED << sessions, signers, protomu, besidesLocks >>

\* Handler: the lookup and the Unlock; a layer with no session ends the call
HandlerLookup(h) ==
    /\ threads[h].pc = "lookup"
    /\ mu' = muAfterLookup(h)
    /\ IF threads[h].layer \in sessions
         THEN Goto(h, "found", threads[h].layer)
         ELSE Goto(h, "idle", EnableLayer)
    /\ UNCHANGED << sessions, signers, protomu, besidesLocks >>

\* Handler: session.OnInput takes the session's mutex
OnInputLock(h) ==
    /\ threads[h].pc = "found"
    /\ protomu[threads[h].layer] = Free
    /\ protomu' = [protomu EXCEPT ![threads[h].layer] = h]
    /\ Goto(h, "oninput", threads[h].layer)
    /\ UNCHANGED << sessions, signers, mu, besidesLocks >>

\* Handler: session.OnInput returns, and then the Handler
OnInputUnlock(h) ==
    /\ threads[h].pc = "oninput"
    /\ protomu' = [protomu EXCEPT ![threads[h].layer] = Free]
    /\ Goto(h, "idle", EnableLayer)
    /\ UNCHANGED << sessions, signers, mu, besidesLocks >>

\* onLayer: h.mu.Lock() for the next layer
OnLayerLock ==
    /\ threads[StartLoop].pc = "idle"
    /\ threads[StartLoop].layer \in Layers
    /\ mu = Free
    /\ mu' = StartLoop
    /\ Goto(StartLoop, "insert", threads[StartLoop].layer)
    /\ UNCHANGED << sessions, signers, protomu, besidesLocks >>

\* onLayer: the session is put in the registry, the mutex released and the
\* goroutine of run started
OnLayerInsert ==
    /\ threads[StartLoop].pc = "insert"
    /\ LET l == threads[StartLoop].layer
       IN  /\ sessions' = sessions \cup {l}
           /\ threads' = [threads EXCEPT ![StartLoop] = Thread("idle", l + 1),
                                         ![RunOf(l)] = Thread("run", l)]
    /\ mu' = Free
    /\ UNCHANGED << signers, protomu, besidesLocks >>

\* run: proto.OnInitial or proto.Next takes the session's mutex
RunLock(l) ==
    /\ threads[RunOf(l)].pc = "run"
    /\ protomu[l] = Free
    /\ protomu' = [protomu EXCEPT ![l] = RunOf(l)]
    /\ Goto(RunOf(l), "next", l)
    /\ UNCHANGED << sessions, signers, mu, besidesLocks >>

\* run: the call returns; run goes on to another round or returns
RunUnlock(l) ==
    /\ threads[RunOf(l)].pc = "next"
    /\ protomu' = [protomu EXCEPT ![l] = Free]
    /\ \E pc \in {"run", "returned"} : Goto(RunOf(l), pc, l)
    /\ UNCHANGED << sessions, signers, mu, besidesLocks >>

\* run: cancelled in a wait, it returns without another call of the protocol
RunCancelled(l) ==
    /\ threads[RunOf(l)].pc = "run"
    /\ Goto(RunOf(l), "returned", l)
    /\ UNCHANGED << sessions, signers, mu, protomu, besidesLocks >>

\* the goroutine of the session after run: h.mu.Lock() for the delete
DeleteLock(l) ==
    /\ threads[RunOf(l)].pc = "returned"
    /\ mu = Free
    /\ mu' = RunOf(l)
    /\ Goto(RunOf(l), "delete", l)
    /\ UNCHANGED << sessions, signers, protomu, besidesLocks >>

\* the session is deleted from the registry and the mutex released
DeleteUnlock(l) ==
    /\ threads[RunOf(l)].pc = "delete"
    /\ sessions' = sessions \ {l}
    /\ mu' = Free
    /\ Goto(RunOf(l), "done", l)
    /\ UNCHANGED << signers, protomu, besidesLocks >>

\* Register or Running: h.mu.Lock()
CallerLock ==
    /\ threads[Caller].pc = "idle"
    /\ mu = Free
    /\ mu' = Caller
    /\ \E pc \in {"Register", "Running"} : Goto(Caller, pc, EnableLayer)
    /\ UNCHANGED << sessions, signers, protomu, besidesLocks >>

\* Register writes the signer, Running reads the size of the registry; the
\* deferred Unlock
CallerUnlock ==
    /\ threads[Caller].pc \in {"Register", "Running"}
    /\ signers' = IF threads[Caller].pc = "Register"
                    THEN signers \cup {CHOOSE s \in Signers : TRUE}
                    ELSE signers
    /\ mu' = Free
    /\ Goto(Caller, "idle", EnableLayer)
    /\ UNCHANGED << sessions, protomu, besidesLocks >>

LocksStep ==
    \/ \E h \in Handlers :
         HandlerLock(h) \/ HandlerLookup(h) \/ OnInputLock(h) \/ OnInputUnlock(h)
    \/ OnLayerLock
    \/ OnLayerInsert
    \/ \E l \in Layers :
         RunLock(l) \/ RunUnlock(l) \/ RunCancelled(l) \/ DeleteLock(l) \/ DeleteUnlock(l)
    \/ CallerLock
    \/ CallerUnlock

SpecLocks == InitLocks /\ [][LocksStep]_vars

(***************************************************************************)
(* C29: the Handler does not hold the registry mutex while it takes the    *)
(* session mutex or runs on_input; a goroutine that holds a mutex is never *)
(* one that waits, so a Handler blocked on a session's mutex leaves the    *)
(* registry free for Register, Running, onLayer, the delete and the lookup *)
(* of another layer; no goroutine holds both mutexes and no two wait on    *)
(* each other.                                                             *)
(***************************************************************************)
\* the goroutine that holds the mutex g waits for, or Free if g can go on
WaitsFor(g) ==
    IF \/ threads[g].pc \in {"idle", "returned"} /\ g # StartLoop
       \/ g = StartLoop /\ threads[g].pc = "idle" /\ threads[g].layer \in Layers
      THEN mu
    ELSE IF threads[g].pc \in {"found", "run"}
      THEN protomu[threads[g].layer]
    ELSE Free

\* the goroutine holds a session's mutex
HoldsSession(g) == \E l \in Layers : protomu[l] = g

C29_NoNesting ==
    /\ \A h \in Handlers :
         threads[h].pc \in {"found", "oninput"} => mu # h
    /\ \A g \in Goroutines :
         /\ ~(mu = g /\ HoldsSession(g))
         /\ (mu = g \/ HoldsSession(g)) => WaitsFor(g) = Free
         /\ WaitsFor(g) # Free => WaitsFor(WaitsFor(g)) = Free

\* one Handler is blocked on the mutex of its session, held by run, while
\* the other holds the registry mutex for the lookup of another layer
C29_Witness ==
    \E h, k \in Handlers :
       /\ threads[h].pc = "found"
       /\ protomu[threads[h].layer] = RunOf(threads[h].layer)
       /\ threads[k].pc = "lookup"
       /\ threads[k].layer # threads[h].layer
       /\ mu = k

(***************************************************************************)
(* C30: OnInitial is called at most once per session, in the step of the   *)
(* session's first Next and before it, and that step calls it if and only  *)
(* if some signer of the session is eligible in the preround; the preround *)
(* message is then published for each eligible signer and for no other.    *)
(***************************************************************************)
\* the first call of proto.Next() in the session of layer l
FirstNext(l) == NextCalled(l) /\ tasks[l].pc \in {"start", "preround"}

\* proto.OnInitial is called in this step, before Next
OnInitialCalled(l) ==
    /\ NextCalled(l)
    /\ tasks[l].pc = "preround"
    /\ \E c \in Candidates : protos'[l] = Next(OnInitial(protos[l], c)).p

\* the messages published for layer l
PublishedFor(l, P) == { s \in LocalSigners \cup LateSigners : << l, s >> \in P }

C30_Initial ==
    /\ \A l \in Layers :
         /\ FirstNext(l) =>
              /\ OnInitialCalled(l) <=> tasks'[l].vrfs # {}
              /\ protos[l] = newProtocol(protos[l].threshold)
              /\ PublishedFor(l, published) = {}
              /\ PublishedFor(l, published') = tasks'[l].vrfs
              /\ tasks'[l].vrfs # {} =>
                   /\ tasks'[l].out.message # None
                   /\ tasks'[l].out.message[1].round = preround
         /\ NextCalled(l) /\ ~FirstNext(l) =>
              /\ protos'[l] = Next(protos[l]).p
              /\ protos[l] # newProtocol(protos[l].threshold)
    /\ \A l \in DOMAIN tasks :
         tasks[l].pc \notin {"start", "preround"}
           => l \in DOMAIN tasks' /\ tasks'[l].pc \notin {"start", "preround"}

LockRounds == {hardlock, softlock}

C31_SlotsCleared ==
    \A l \in DOMAIN tasks :
       /\ tasks[l].pc = "wait" =>
            /\ tasks[l].current = [Iter |-> protos[l].Iter, Round |-> protos[l].Round]
            /\ tasks[l].current.Round \in LockRounds => tasks[l].vrfs = {}
       /\ tasks[l].pc \in {"start", "preround"} =>
            protos[l].Iter = 0 /\ protos[l].Round = preround

C31_PublishStep ==
    /\ \A l \in Layers :
       /\ Publishes(l) =>
            /\ RoundCalled(l).Round \notin LockRounds
            /\ tasks'[l].out.message[1].iter = RoundCalled(l).Iter
            /\ tasks'[l].out.message[1].round = RoundCalled(l).Round
            /\ tasks[l].pc = "wait" => tasks'[l].vrfs = tasks[l].vrfs
       /\ NextCalled(l) =>
            published' = IF Publishes(l)
                           THEN published \cup { << l, s >> : s \in tasks'[l].vrfs }
                           ELSE published
    /\ (\A l \in Layers : ~NextCalled(l)) => published' = published

\* C31: no message is published in a lock round and the slots of the round
\* executed are cleared
C31_NoLockRoundMessage == [] C31_SlotsCleared /\ [][C31_PublishStep]_vars

\* a session that published its preround message waits for the softlock
\* round with no proof held, and one has published in a later round
C31_Witness ==
    \E l \in DOMAIN tasks :
       /\ tasks[l].pc = "wait"
       /\ tasks[l].current.Round = softlock
       /\ tasks[l].vrfs = {}
       /\ << l, "s1" >> \in published

(***************************************************************************)
(* The scheduler with the preround messages of both committee members      *)
(* reaching the session of the first layer at any time.                    *)
(***************************************************************************)
CoinDeliver ==
    /\ nin < MaxCoinDeliveries
    /\ \E l \in sessions \cap {EnableLayer}, s \in Signers :
         LET in == Input(s, 0, preround, {"P1"}, now - LayerToTime(l))
         IN  /\ in.grade > 0
             /\ protos' = [protos EXCEPT ![l] = OnInput(protos[l], in).p]
             /\ nin' = nin + 1
             /\ UNCHANGED << sessions, now, besidesSched, schedVars >>

\* with preround messages only no session of SpecCoin has a result to send:
\* the steps are those of the scheduler less the result send and its reader
CoinStep ==
    \/ SchedTick
    \/ Cancel
    \/ StopReturn
    \/ AwaitLayer
    \/ LoopReturn
    \/ \E l \in Layers :
         \/ SessionStart(l)
         \/ SessionPreround(l)
         \/ SessionCoin(l)
         \/ SessionLoop(l)
         \/ SessionWait(l)
         \/ SessionEnd(l)
    \/ TakeCoin
    \/ CoinDeliver

SpecCoin == InitSched /\ [][CoinStep]_vars

(***************************************************************************)
(* C32: the coin Next puts out in the coin round of an iteration is the    *)
(* low bit of the least VRF signature among the preround messages admitted *)
(* so far (at grade g1 or better), no other round puts out a coin, and for *)
(* each such Next call at most one coin is sent on the coins channel.      *)
(***************************************************************************)
\* the round in which the coin is put out
CoinRound == softlock

\* the VRF signatures of the preround messages the session of layer l holds
\* at grade 1 or better
AdmittedVrfs(l) ==
    { VrfSignature(sl[1]) :
        sl \in { x \in DOMAIN protos[l].first :
                   x[3] = preround /\ protos[l].first[x].grade >= 1 } }

\* the least of a set of signatures
Least(S) == CHOOSE x \in S : \A y \in S : x <= y

C32_Coin ==
    \A l \in Layers :
       /\ NextCalled(l) =>
            tasks'[l].out.coin =
               IF RoundCalled(l).Round = CoinRound /\ AdmittedVrfs(l) # {}
                 THEN Some(Least(AdmittedVrfs(l)) % 2 = 1)
                 ELSE None
       /\ (l \in DOMAIN tasks /\ tasks[l].pc # "coin" /\ tasks'[l].pc = "coin") =>
            NextCalled(l) /\ RoundCalled(l).Round = CoinRound /\ coins' = coins
       /\ (l \in DOMAIN tasks /\ tasks[l].pc = "coin" /\ tasks'[l].pc # "coin") =>
            \/ coins' = Append(coins, [layer |-> l, coin |-> tasks[l].out.coin[1]])
            \/ coins' = coins /\ tasks'[l].pc = "returned"

C32_OnlySends ==
    Len(coins') > Len(coins) =>
       \E l \in DOMAIN tasks :
          /\ tasks[l].pc = "coin" /\ tasks'[l].pc # "coin"
          /\ \A k \in DOMAIN tasks \ {l} : tasks'[k] = tasks[k]

\* C32: the coin put out is the low bit of the least signature held at grade 1
\* or better, in the coin round only, and it is sent once
C32_WeakCoin == [][C32_Coin /\ C32_OnlySends]_vars

\* both preround messages are held, the one with the greater signature
\* first at a better grade; the coin sent is the low bit of the lesser
C32_Witness ==
    \E l \in DOMAIN tasks \cap DOMAIN protos :
       /\ Cardinality(AdmittedVrfs(l)) = 2
       /\ coins = << [layer |-> l, coin |-> FALSE] >>
       /\ tasks[l].pc \in {"after", "wait"}
       /\ tasks[l].current.Round = CoinRound

(***************************************************************************)
(* The scheduler over a pubsub whose Publish may fail, with two signers    *)
(* and sessions of one iteration.                                          *)
(***************************************************************************)
OneIteration == [Config EXCEPT !.IterationsLimit = 1]

InitPublish ==
    /\ ConstructedOver(Signers, OneIteration, NoStore, Lossy)
    /\ loop = [next |-> EnableLayer, running |-> TRUE, seen |-> << >>]

SpecPublish == InitPublish /\ [][SchedStep]_vars

(***************************************************************************)
(* C33: a publish error does not end the session.  Whatever Publish        *)
(* returns, onOutput calls it once for each eligible signer of the round,  *)
(* run goes on to the coin and the result of the round, and run returns    *)
(* only when cancelled, terminated or at the iterations limit.             *)
(***************************************************************************)
\* Publish returned an error in the onOutput of the session of layer l
PublishFailed(l) == \E c \in tasks[l].sent : ~c.ok

C33_Step ==
    \A l \in Layers :
       /\ NextCalled(l) =>
            /\ { c.signer : c \in tasks'[l].sent } =
                 IF tasks'[l].out.message = None THEN {} ELSE tasks'[l].vrfs
            /\ Cardinality(tasks'[l].sent) = Cardinality({ c.signer : c \in tasks'[l].sent })
            /\ tasks'[l].pc = AfterPublish(tasks'[l].out)
            /\ tasks'[l].err = "nil"
       /\ (l \in DOMAIN tasks /\ tasks[l].pc # "returned" /\ tasks'[l].pc = "returned") =>
            \/ cancelled /\ tasks'[l].err \in {Cancelled, "nil"}
            \/ /\ tasks[l].pc = "after" /\ ~tasks[l].first
               /\ \/ Terminated(tasks[l].out)
                  \/ AtLimit(tasks[l].current) /\ tasks'[l].err = NoConsensus
       /\ (l \in DOMAIN tasks /\ tasks[l].pc = "after" /\ PublishFailed(l)
             /\ ~Terminated(tasks[l].out) /\ ~AtLimit(tasks[l].current)) =>
            tasks'[l].pc \in {"after", "wait"}

\* C33: a failed Publish is neither retried nor the end of the session
C33_PublishErrorGoesOn == [][C33_Step]_vars

\* after a preround in which Publish failed, the session is in the status
\* round, where Publish failed for one of two eligible signers and was
\* called for the other all the same
C33_Witness ==
    \E l \in DOMAIN tasks :
       /\ tasks[l].pc = "after"
       /\ tasks[l].current.Round = status
       /\ Cardinality(tasks[l].sent) = 2
       /\ \E c, d \in tasks[l].sent : ~c.ok /\ d.ok
       /\ tasks[l].err = "nil"

(***************************************************************************)
(* The scheduler under each iterations limit, with the channels read.      *)
(***************************************************************************)
LimitConfigs == { [Config EXCEPT !.IterationsLimit = i] : i \in 0 .. MaxLimit }

InitLimit == \E cfg \in LimitConfigs : Started(LocalSigners, cfg, NoStore)

SpecLimit == InitLimit /\ [][LiveStep]_vars /\ SchedFairness /\ Served

(***************************************************************************)
(* C34: every session ends.  A session that is not cancelled returns after *)
(* a bounded number of round waits: as stated, 1 + IterationsLimit *       *)
(* RoundsPerIter of them, the last deadline being PreroundDelay +          *)
(* IterationsLimit * RoundsPerIter * RoundDuration after the layer's       *)
(* start; as the code has it, the round after the preround is executed    *)
(* before the limit is looked at, so that with a limit of 0 the session    *)
(* ends after one round more than that.                                    *)
(***************************************************************************)
\* the round waits of the session of layer l so far: the preround and the
\* rounds after it, one RoundDuration apart
RoundWaits(l) ==
    IF tasks[l].pc = "start" THEN 0
    ELSE 1 + (tasks[l].walltime - (LayerToTime(l) + PreroundDelay)) \div RoundDuration

\* the rounds after the preround that a session executes at most
RoundsStated == config.IterationsLimit * RoundsPerIter

RoundsExecuted ==
    IF config.IterationsLimit = 0 THEN 1 ELSE config.IterationsLimit * RoundsPerIter

\* the session of layer l is within n rounds after the preround
Within34(l, n) ==
    tasks[l].pc \notin {"done"} =>
       /\ RoundWaits(l) <= 1 + n
       /\ tasks[l].walltime <= LayerToTime(l) + PreroundDelay + n * RoundDuration

\* every session that started has ended
AllEnded ==
    /\ ~loop.running
    /\ \A l \in DOMAIN tasks : tasks[l].pc = "done"

\* C34 as stated: every session is within 1 + IterationsLimit * RoundsPerIter
\* round waits and that many round durations after the preround, and ends
C34_Original ==
    /\ [](\A l \in DOMAIN tasks : Within34(l, RoundsStated))
    /\ <>AllEnded

\* C34 with the round the code executes under a limit of 0
C34_Terminates ==
    /\ [](\A l \in DOMAIN tasks : Within34(l, RoundsExecuted))
    /\ <>AllEnded

\* with no message received the session ran to the limit of 2 iterations:
\* it failed after the hardlock round of iteration 2, its 13th round wait
C34_Witness ==
    \E l \in DOMAIN tasks :
       /\ config.IterationsLimit = 2
       /\ ~cancelled
       /\ tasks[l].pc = "returned"
       /\ tasks[l].err = NoConsensus
       /\ RoundWaits(l) = 1 + 2 * RoundsPerIter

(***************************************************************************)
(* Two honest participants of one layer with a committee of 1: each is     *)
(* eligible in every round, starts from the same candidates, executes each *)
(* round at its deadline, and receives every message of both before the    *)
(* deadline of the round after the message's.                              *)
(***************************************************************************)
\* the signer of each participant
SignerOf(x) == IF x = "A" THEN "s1" ELSE "s2"

\* Config.CommitteeFor(layer)/2 + 1 for a committee of 1
ThresholdOfOne == (1 \div 2) + 1

InitValidity ==
    /\ \E V \in Candidates :
         /\ pair = [x \in Participants |-> OnInitial(newProtocol(ThresholdOfOne), V)]
         /\ network = [candidates |-> V, flying |-> {}]
    /\ server = << >>
    /\ identities = << >>
    /\ account = << >>
    /\ pubsub = Reliable
    /\ NoSync
    /\ NoCache
    /\ now = 0
    /\ nin = 0
    /\ proto = newProtocol(Threshold)
    /\ ret = [op |-> "new", in |-> None, gossip |-> FALSE,
              equivocation |-> None, out |-> None]
    /\ sessions = {}
    /\ protos = << >>
    /\ malicious = {}
    /\ proofs = << >>
    /\ handlers = << >>
    /\ signers = {}
    /\ config = Config
    /\ store = NoStore
    /\ cancelled = FALSE
    /\ stopped = FALSE
    /\ loop = [next |-> 0, running |-> FALSE, seen |-> << >>]
    /\ tasks = << >>
    /\ coins = << >>
    /\ results = << >>
    /\ sentResults = << >>
    /\ completed = << >>
    /\ inCharge = {}
    /\ published = {}

besidesValidity ==
    << proto, ret, nin, hareVars, schedVars, stores, conduit, syncer, cache, db,
       locking, pubsub, server, identities, account >>

\* the participant has ended or waits for the deadline of its round
Waiting(x) ==
    pair[x].result # None \/ now < roundStart(pair[x].Iter, pair[x].Round)

\* the ticks a message is in flight at most: it arrives ahead of the deadline
\* of the next round
InTime == RoundDuration - 1

\* the clock: time passes while no message in flight would be late
ValidityTick ==
    /\ \A x \in Participants : Waiting(x)
    /\ \A m \in network.flying : now + 1 <= m.at + InTime
    /\ \E x \in Participants : pair[x].result = None
    /\ now' = now + 1
    /\ UNCHANGED << pair, network, besidesValidity >>

\* a message in flight reaches its receiver, graded by its arrival time
ValidityDeliver ==
    \E m \in network.flying :
       /\ pair' = [pair EXCEPT ![m.to] =
                     OnInput(pair[m.to],
                             Input(m.sender, m.iter, m.round, m.value, now)).p]
       /\ network' = [network EXCEPT !.flying = @ \ {m}]
       /\ UNCHANGED << now, besidesValidity >>

\* the participant's scheduler at the deadline: Next, and the message, if
\* any, published: the participant's own handler takes it inside Publish,
\* the other participant's when it arrives
ValidityNext(x) ==
    /\ pair[x].result = None
    /\ ~Waiting(x)
    /\ \A m \in network.flying : m.to # x
    /\ \E r \in { Next(pair[x]) } :
         IF r.out.message = None
         THEN /\ pair' = [pair EXCEPT ![x] = r.p]
              /\ network' = network
         ELSE \E m \in { r.out.message[1] } :
              /\ pair' = [pair EXCEPT ![x] =
                            OnInput(r.p, Input(SignerOf(x), m.iter, m.round,
                                               m.value, now)).p]
              /\ network' = [network EXCEPT !.flying =
                    @ \cup { [to |-> y, sender |-> SignerOf(x), at |-> now,
                              iter |-> m.iter, round |-> m.round,
                              value |-> m.value] :
                             y \in Participants \ {x} }]
    /\ UNCHANGED << now, besidesValidity >>

ValidityStep ==
    \/ ValidityTick
    \/ ValidityDeliver
    \/ \E x \in Participants : ValidityNext(x)

SpecValidity == InitValidity /\ [][ValidityStep]_vars

(***************************************************************************)
(* C35: validity and termination in one iteration.  Each participant sends *)
(* the preround, status, proposal, commit and notify message of iteration  *)
(* 0 with the common candidates V, and its next call, the first of         *)
(* iteration 1, gives result V and terminated; nothing of iteration 1 is   *)
(* sent.                                                                   *)
(***************************************************************************)
\* participant x calls Next in this step
NextOf(x) == pair'[x].Round # pair[x].Round

C35_Step ==
    \A x \in Participants :
       NextOf(x) =>
          LET out == Next(pair[x]).out
              V   == network.candidates
          IN  /\ pair[x].Iter = 0 /\ pair[x].Round \in MessageRounds =>
                   /\ out.message = Some(Message(0, pair[x].Round, V))
                   /\ out.result = None /\ ~out.terminated
              /\ pair[x].Iter = 0 /\ pair[x].Round \notin MessageRounds =>
                   out.message = None /\ out.result = None /\ ~out.terminated
              /\ pair[x].Iter = 1 =>
                   /\ pair[x].Round = hardlock
                   /\ out.result = Some(V)
                   /\ out.terminated
                   /\ out.message = None
              /\ pair[x].Iter <= 1

C35_Ended ==
    \A x \in Participants :
       /\ pair[x].result # None =>
            pair[x].result = Some(network.candidates) /\ pair[x].Iter = 1
       /\ \A m \in network.flying : m.iter = 0 /\ m.value = network.candidates

\* C35: honest participants that start from V put out V and end with V after
\* the rounds of the first iteration
C35_Validity == [] C35_Ended /\ [][C35_Step]_vars

\* both participants have ended with the proposal P1 as their result
C35_Witness ==
    /\ network.candidates = {"P1"}
    /\ \A x \in Participants : pair[x].result = Some({"P1"})
    /\ network.flying = {}

(***************************************************************************)
(* The reconciliation with a peer that may end a round of messages with    *)
(* the done marker instead of the end-of-round marker.                     *)
(***************************************************************************)
\* the round with its marker replaced by the done marker
MarkedDone(msgs) == getMessages(msgs).msgs \o SendDone

\* Process by the reconciler whose turn it is, on such a round
SyncProcessMarked(who) ==
    /\ syncer.pc = "Process" \o who
    /\ ~syncer.marked
    /\ getMessages(conduit.resp).msgs # << >>
    /\ \E r \in { Process(stores[who], syncer.maxSendRange, MarkedDone(conduit.resp)) } :
         /\ stores' = [stores EXCEPT ![who] = r.st]
         /\ conduit' = [msgs |-> << >>, resp |-> r.sent]
         /\ syncer' = [syncer EXCEPT
                         !.marked = TRUE,
                         !.err = r.err,
                         !.aDone = IF who = "A" THEN r.done ELSE @,
                         !.bDone = IF who = "B" THEN r.done ELSE @,
                         !.pc = IF r.err # NoError THEN "Failed" ELSE "End"]
    /\ UNCHANGED besidesSync

SyncPeerStep ==
    \/ SyncNew
    \/ SyncInitiate
    \/ SyncProcess("B")
    \/ SyncProcess("A")
    \/ SyncProcessMarked("B")
    \/ SyncProcessMarked("A")

SpecSyncPeer == InitSync /\ [][SyncPeerStep]_vars

(***************************************************************************)
(* C36: nothing is sent in response to the done marker.  When one side's   *)
(* Process has returned done, the next Process of the other side returns   *)
(* done as well and sends nothing; a round of messages that ends with the  *)
(* done marker is refused with an error, the store left as it was and      *)
(* nothing sent.                                                           *)
(***************************************************************************)
\* a Process call is made in this step by the side named
ProcessBy(who) == syncer.pc = "Process" \o who /\ syncer'.pc # syncer.pc

C36_Step ==
    /\ (ProcessBy("B") /\ syncer.aDone /\ ~syncer'.marked) =>
         syncer'.bDone /\ syncer'.err = NoError /\ conduit'.resp = << >>
    /\ (ProcessBy("A") /\ syncer.bDone /\ ~syncer'.marked) =>
         syncer'.aDone /\ syncer'.err = NoError /\ conduit'.resp = << >>
    /\ \A who \in {"A", "B"} :
         (ProcessBy(who) /\ syncer'.marked) =>
            /\ syncer'.err = DoneWithMessages
            /\ syncer'.pc = "Failed"
            /\ ~syncer'.aDone \/ ~syncer'.bDone
            /\ conduit'.resp = << >>
            /\ stores' = stores

C36_Ended == syncer.pc = "End" => conduit.resp = << >> /\ conduit.msgs = << >>

\* C36: a done round is answered with done and nothing is sent; a done round
\* that carries messages is refused
C36_NoReplyToDone == [] C36_Ended /\ [][C36_Step]_vars

\* B answered A's round with done, and A's Process on B's done marker
\* returned done and sent nothing
C36_Witness ==
    /\ syncer.pc = "End"
    /\ ~syncer.marked
    /\ syncer.aDone /\ syncer.bDone
    /\ syncer.i >= 1
    /\ syncer.a # syncer.b
    /\ conduit.resp = << >>

(***************************************************************************)
(* C37: LinkTXsWithProposal and LinkTXsWithBlock tag the transactions with *)
(* the layer.  After a call that returned no error every id of tids that   *)
(* is cached has a layer, whether or not other ids of tids are not cached, *)
(* and it is the lower of the layer it had and the layer of the call.      *)
(***************************************************************************)
LinkStep == CacheAdd \/ LinkTXsWithProposal \/ LinkTXsWithBlock

SpecLink == InitCache /\ [][LinkStep]_vars

Linked ==
    /\ nin' = nin + 1
    /\ ret'.op \in {"LinkTXsWithProposal", "LinkTXsWithBlock"}
    /\ ret'.err = NoError

\* the layer a cached transaction keeps when it is included in layer lid
Retained(ntx, lid) == IF ntx.Layer = 0 \/ lid < ntx.Layer THEN lid ELSE ntx.Layer

C37_Step ==
    Linked =>
        \A i \in DOMAIN ret'.tids :
            ret'.tids[i] \in DOMAIN cache.cachedTXs =>
                /\ ret'.tids[i] \in DOMAIN cache'.cachedTXs
                /\ cache'.cachedTXs[ret'.tids[i]].Layer # 0
                /\ cache'.cachedTXs[ret'.tids[i]].Layer =
                      Retained(cache.cachedTXs[ret'.tids[i]], ret'.lid)

\* C37: every cached id of tids takes the layer unless it has a lower one
C37_Tagged == [][C37_Step]_vars

(***************************************************************************)
(* The request server (New, Server.Run): its semaphore of queueSize slots, *)
(* the stream handlers blocked on the unbuffered queue, Run, and the two   *)
(* goroutines Run starts for each request.                                 *)
(***************************************************************************)
Streams == 1 .. MaxStreams

\* a stream not yet opened
NotOpened == "new"

\* New, with WithQueueSize(size); Run is not called yet
NewServer(size) ==
    [ queueSize |-> size, sem |-> 0, ctx |-> "live", stopped |-> FALSE,
      run |-> "new", req |-> None,
      stream |-> [s \in Streams |-> NotOpened],
      released |-> [s \in Streams |-> 0],
      closed |-> [s \in Streams |-> 0] ]

InitServer ==
    /\ \E size \in 1 .. MaxQueueSize : server = NewServer(size)
    /\ identities = << >>
    /\ account = << >>
    /\ network = << >>
    /\ pubsub = Reliable
    /\ NoSync
    /\ NoCache
    /\ NoHare

besidesServer ==
    << proto, now, ret, nin, pair, hareVars, schedVars, stores, conduit, syncer,
       cache, db, locking, pubsub, identities, account, network >>

\* sem.Release(1) and stream.Close() for stream s, which is then in state st
ReleaseAndClose(srv, s, st) ==
    [srv EXCEPT !.sem = @ - 1,
                !.released[s] = @ + 1,
                !.closed[s] = @ + 1,
                !.stream[s] = st]

\* the stream handler: a stream that finds no slot is closed, the others
\* block in the select on the queue
StreamOpened(s) ==
    /\ server.stream[s] = NotOpened
    /\ server' = IF server.sem < server.queueSize
                   THEN [server EXCEPT !.sem = @ + 1, !.stream[s] = "queued"]
                   ELSE [server EXCEPT !.closed[s] = @ + 1, !.stream[s] = "dropped"]
    /\ UNCHANGED besidesServer

\* the stream handler's select: case <-srv.stopped
StreamStopped(s) ==
    /\ server.stream[s] = "queued"
    /\ server.stopped
    /\ server' = ReleaseAndClose(server, s, "closed")
    /\ UNCHANGED besidesServer

\* Run is called
RunStart ==
    /\ server.run = "new"
    /\ server' = [server EXCEPT !.run = "select"]
    /\ UNCHANGED besidesServer

\* the context given to Run is cancelled
CancelRun ==
    /\ server.ctx = "live"
    /\ server' = [server EXCEPT !.ctx = "cancelled"]
    /\ UNCHANGED besidesServer

\* Run's select: case <-ctx.Done(), close(s.stopped)
RunDone ==
    /\ server.run = "select"
    /\ server.ctx = "cancelled"
    /\ server' = [server EXCEPT !.stopped = TRUE, !.run = "wait"]
    /\ UNCHANGED besidesServer

\* Run's select: case req := <-s.queue, from a handler blocked on the queue
RunReceive(s) ==
    /\ server.run = "select"
    /\ server.stream[s] = "queued"
    /\ server' = [server EXCEPT !.run = "limit", !.req = Some(s),
                                !.stream[s] = "dequeued"]
    /\ UNCHANGED besidesServer

\* s.limit.Wait(ctx) returns an error once ctx is cancelled: Run waits for
\* its goroutines and returns
RunLimited ==
    /\ server.run = "limit"
    /\ server.ctx = "cancelled"
    /\ server' = [server EXCEPT !.run = "wait", !.req = None]
    /\ UNCHANGED besidesServer

\* s.limit.Wait(ctx) returns nil: the two goroutines of the request start
RunServe ==
    /\ server.run = "limit"
    /\ server.ctx = "live"
    /\ server' = [server EXCEPT !.run = "select", !.req = None,
                                !.stream[server.req[1]] = "processing"]
    /\ UNCHANGED besidesServer

\* the second goroutine: queueHandler returns and the deferred cancel runs
StreamHandled(s) ==
    /\ server.stream[s] \in {"processing", "released"}
    /\ server' = [server EXCEPT !.stream[s] =
                     IF @ = "processing" THEN "handled" ELSE "closed"]
    /\ UNCHANGED besidesServer

\* the first goroutine: the request's context is done, by the cancel of the
\* second goroutine or by the context of Run
StreamWatched(s) ==
    /\ \/ server.stream[s] = "handled"
       \/ server.stream[s] = "processing" /\ server.ctx = "cancelled"
    /\ server' = ReleaseAndClose(server, s,
                    IF server.stream[s] = "handled" THEN "closed" ELSE "released")
    /\ UNCHANGED besidesServer

\* eg.Wait() is over: Run returns
RunReturn ==
    /\ server.run = "wait"
    /\ \A s \in Streams : server.stream[s] \notin {"processing", "handled", "released"}
    /\ server' = [server EXCEPT !.run = "returned"]
    /\ UNCHANGED besidesServer

\* the steps of the server's own goroutines
ServerRuns ==
    \/ RunStart
    \/ RunDone
    \/ RunLimited
    \/ RunServe
    \/ RunReturn
    \/ \E s \in Streams :
         \/ StreamStopped(s)
         \/ RunReceive(s)
         \/ StreamHandled(s)
         \/ StreamWatched(s)

ServerStep ==
    \/ ServerRuns
    \/ CancelRun
    \/ \E s \in Streams : StreamOpened(s)

\* every goroutine of the server that can take a step takes one
ServerFairness ==
    /\ WF_vars(RunStart)
    /\ WF_vars(RunDone \/ \E s \in Streams : RunReceive(s))
    /\ WF_vars(RunLimited \/ RunServe)
    /\ WF_vars(RunReturn)
    /\ \A s \in Streams :
         /\ WF_vars(StreamStopped(s) \/ RunReceive(s))
         /\ WF_vars(StreamHandled(s))
         /\ WF_vars(StreamWatched(s))

SpecServer == InitServer /\ [][ServerStep]_vars /\ ServerFairness

(***************************************************************************)
(* C38: at most queueSize streams hold a slot, queued or being processed;  *)
(* a stream that finds no slot is closed at once; and every stream that    *)
(* got a slot is in the end closed, with its slot released exactly once,   *)
(* also when Run stops on the cancellation of its context.                 *)
(***************************************************************************)
\* the streams that hold a slot
Holding == { s \in Streams :
               server.stream[s] \in {"queued", "dequeued", "processing", "handled"} }

\* the stream is over: closed once, its slot, if it had one, released once
Over(s) ==
    \/ server.stream[s] = "dropped"
    \/ /\ server.stream[s] \in {"released", "closed"}
       /\ server.released[s] = 1

C38_Slots ==
    /\ Cardinality(Holding) <= server.queueSize
    /\ server.sem = Cardinality(Holding)
    /\ \A s \in Streams :
         /\ server.released[s] <= 1
         /\ server.closed[s] <= 1
         /\ server.stream[s] = "dropped" =>
              server.closed[s] = 1 /\ server.released[s] = 0

C38_Dropped ==
    \A s \in Streams :
       (server.stream[s] = NotOpened /\ server'.stream[s] # NotOpened) =>
          (server'.stream[s] = "dropped") = (server.sem >= server.queueSize)

\* C38: at most queueSize streams hold a slot, a stream is dropped only when
\* none is free, and every stream that holds a slot is in the end over
C38_Served ==
    /\ [] C38_Slots
    /\ [][C38_Dropped]_vars
    /\ \A s \in Streams : (s \in Holding) ~> Over(s)

(***************************************************************************)
(* The cache of one account (accountCache): the candidates in the order of *)
(* their nonces, each with the balance left after it, and the map of       *)
(* cached transactions it shares with the cache.                           *)
(***************************************************************************)
\* maxTXsPerAcct, 100 in the code, at the scale of the model
maxTXsPerAcct == 2

errInsufficientBalance == "insufficient balance"
errTooManyNonce == "account has too many nonce pending"

\* the transactions of the account: nonce, maximal spending and fee
AcctTXs == {"a0", "b0", "a1", "c1", "a2"}

NanoTX(id) ==
    CASE id = "a0" -> [ID |-> id, Nonce |-> 0, MaxSpending |-> 1, Fee |-> 1]
      [] id = "b0" -> [ID |-> id, Nonce |-> 0, MaxSpending |-> 3, Fee |-> 2]
      [] id = "a1" -> [ID |-> id, Nonce |-> 1, MaxSpending |-> 2, Fee |-> 1]
      [] id = "c1" -> [ID |-> id, Nonce |-> 1, MaxSpending |-> 1, Fee |-> 2]
      [] id = "a2" -> [ID |-> id, Nonce |-> 2, MaxSpending |-> 1, Fee |-> 1]

\* NanoTX.Better without a block seed: the higher fee
Better(id, than) == NanoTX(id).Fee > NanoTX(than).Fee

\* the account cache createAcctIfNotPresent builds
NewAccountCache(nonce, balance) ==
    [ startNonce |-> nonce, startBalance |-> balance, txsByNonce |-> << >>,
      moreInDB |-> FALSE, cachedTXs |-> {} ]

nonceOf(cand) == NanoTX(cand.best).Nonce
maxSpending(cand) == NanoTX(cand.best).MaxSpending

nextNonce(ac) ==
    IF ac.txsByNonce = << >> THEN ac.startNonce
    ELSE nonceOf(ac.txsByNonce[Len(ac.txsByNonce)]) + 1

availBalance(ac) ==
    IF ac.txsByNonce = << >> THEN ac.startBalance
    ELSE ac.txsByNonce[Len(ac.txsByNonce)].postBalance

\* mutation of BalanceAt: the balance left after the candidate of the nonce
BalanceAfter(cand, nonce) == cand.postBalance

\* precheck: the balance at the last candidate whose nonce is not above the
\* nonce; before the candidate if it has that nonce, after it otherwise
BalanceAt(cand, nonce) ==
    IF nonceOf(cand) = nonce THEN cand.postBalance + maxSpending(cand)
    ELSE cand.postBalance

\* accountCache.precheck: prev is the position of the last candidate whose
\* nonce is not above the transaction's, 0 if there is none
precheck(ac, id) ==
    IF Len(ac.txsByNonce) >= maxTXsPerAcct
    THEN [err |-> errTooManyNonce, prev |-> 0, postBalance |-> 0, moreInDB |-> TRUE]
    ELSE LET below   == { i \in DOMAIN ac.txsByNonce :
                            nonceOf(ac.txsByNonce[i]) <= NanoTX(id).Nonce }
             prev    == IF below = {} THEN 0 ELSE Max(below)
             balance == IF prev = 0 THEN ac.startBalance
                        ELSE BalanceAt(ac.txsByNonce[prev], NanoTX(id).Nonce)
         IN  IF balance < NanoTX(id).MaxSpending
             THEN [err |-> errInsufficientBalance, prev |-> 0, postBalance |-> 0,
                   moreInDB |-> ac.moreInDB]
             ELSE [err |-> NoError, prev |-> prev,
                   postBalance |-> balance - NanoTX(id).MaxSpending,
                   moreInDB |-> ac.moreInDB]

\* accept, the propagation of the balance to the candidates that follow:
\* those it still pays for, with their balances, and those removed
RECURSIVE propagate(_, _)
propagate(rest, newBalance) ==
    IF rest = << >> THEN [kept |-> << >>, removed |-> {}]
    ELSE IF newBalance >= maxSpending(Head(rest))
    THEN LET left == newBalance - maxSpending(Head(rest))
             r    == propagate(Tail(rest), left)
         IN  [kept |-> << [Head(rest) EXCEPT !.postBalance = left] >> \o r.kept,
              removed |-> r.removed]
    ELSE LET r == propagate(Tail(rest), newBalance)
         IN  [kept |-> r.kept, removed |-> r.removed \cup {Head(rest).best}]

\* accountCache.accept: the error and the account cache afterwards
accept(ac, id) ==
    LET pre  == precheck(ac, id)
        txs  == ac.txsByNonce
        cand == [best |-> id, postBalance |-> pre.postBalance]
    IN
    IF pre.err # NoError
    THEN [err |-> pre.err, ac |-> [ac EXCEPT !.moreInDB = pre.moreInDB]]
    ELSE IF pre.prev # 0 /\ nonceOf(txs[pre.prev]) = NanoTX(id).Nonce
              /\ ~Better(id, txs[pre.prev].best)
    THEN [err |-> NoError, ac |-> ac]
    ELSE
    LET existing == pre.prev # 0 /\ nonceOf(txs[pre.prev]) = NanoTX(id).Nonce
        front    == SubSeq(txs, 1, IF existing THEN pre.prev - 1 ELSE pre.prev)
        replaced == IF existing THEN {txs[pre.prev].best} ELSE {}
        after    == propagate(SubSeq(txs, pre.prev + 1, Len(txs)), cand.postBalance)
    IN  [err |-> NoError,
         ac |-> [ac EXCEPT
                   !.txsByNonce = front \o << cand >> \o after.kept,
                   !.cachedTXs = ((@ \ replaced) \cup {id}) \ after.removed,
                   !.moreInDB = @ \/ after.removed # {}]]

\* accountCache.add
add(ac, id) ==
    IF NanoTX(id).Nonce < ac.startNonce
    THEN [err |-> errBadNonce, ac |-> ac]
    ELSE accept(ac, id)

\* findBest: the best of the transactions the balance pays for, if any
findBest(ntxs, balance) ==
    LET feasible == { id \in ntxs : balance >= NanoTX(id).MaxSpending }
    IN  IF feasible = {} THEN None
        ELSE Some(CHOOSE id \in feasible : \A o \in feasible \ {id} : ~Better(o, id))

\* addBatch, the loop over the sorted nonces: the account cache and the
\* nonces added
RECURSIVE addSorted(_, _, _, _)
addSorted(ac, ntxs, nonces, added) ==
    IF nonces = {} THEN [ac |-> ac, added |-> added]
    ELSE LET nonce == Min(nonces)
             best  == findBest({ id \in ntxs : NanoTX(id).Nonce = nonce },
                               availBalance(ac))
         IN  IF best = None THEN addSorted(ac, ntxs, nonces \ {nonce}, added)
             ELSE LET r == accept(ac, best[1])
                  IN  IF r.err = errTooManyNonce THEN [ac |-> r.ac, added |-> added]
                      ELSE IF r.err # NoError
                      THEN addSorted(r.ac, ntxs, nonces \ {nonce}, added)
                      ELSE addSorted(r.ac, ntxs, nonces \ {nonce}, added \cup {nonce})

\* accountCache.addBatch
addBatch(ac, ntxs) ==
    LET sortedNonce == { NanoTX(id).Nonce : id \in ntxs } \ (0 .. (nextNonce(ac) - 1))
        r           == addSorted(ac, ntxs, sortedNonce, {})
    IN  [err |-> NoError,
         ac |-> [r.ac EXCEPT !.moreInDB =
                    Cardinality(sortedNonce) > Cardinality(r.added)]]

InitAccount ==
    /\ \E nonce \in 0 .. 1, balance \in 0 .. MaxBalance :
         account = [ac |-> NewAccountCache(nonce, balance), n |-> 0,
                    ret |-> [op |-> "new", err |-> NoError]]
    /\ server = << >>
    /\ identities = << >>
    /\ network = << >>
    /\ pubsub = Reliable
    /\ NoSync
    /\ NoCache
    /\ NoHare

besidesAccount ==
    << proto, now, ret, nin, pair, hareVars, schedVars, stores, conduit, syncer,
       cache, db, locking, pubsub, server, identities, network >>

AccountAdd ==
    /\ account.n < MaxAcctCalls
    /\ \E id \in AcctTXs :
         \E r \in { add(account.ac, id) } :
            account' = [ac |-> r.ac, n |-> account.n + 1,
                        ret |-> [op |-> "add", tx |-> id, err |-> r.err]]
    /\ UNCHANGED besidesAccount

AccountAddBatch ==
    /\ account.n < MaxAcctCalls
    /\ \E ntxs \in SUBSET AcctTXs :
         /\ ntxs # {}
         /\ \E r \in { addBatch(account.ac, ntxs) } :
              account' = [ac |-> r.ac, n |-> account.n + 1,
                          ret |-> [op |-> "addBatch", txs |-> ntxs, err |-> r.err]]
    /\ UNCHANGED besidesAccount

AccountStep == AccountAdd \/ AccountAddBatch

SpecAccount == InitAccount /\ [][AccountStep]_vars

(***************************************************************************)
(* C39: the balance chain of an account cache.  After any add and addBatch *)
(* calls txsByNonce holds at most maxTXsPerAcct candidates, their nonces   *)
(* strictly increasing from startNonce on, each candidate's postBalance    *)
(* is the balance before it (startBalance for the first, the postBalance   *)
(* of the one before otherwise) less its maximal spending, never below 0,  *)
(* and cachedTXs holds exactly the candidates' transactions.               *)
(***************************************************************************)
\* the balance the i-th candidate spends from
BalanceBefore(ac, i) ==
    IF i = 1 THEN ac.startBalance ELSE ac.txsByNonce[i - 1].postBalance

\* C39: the invariant of the account cache
C39_BalanceChain ==
    LET ac  == account.ac
        txs == ac.txsByNonce
    IN  /\ Len(txs) <= maxTXsPerAcct
        /\ \A i \in DOMAIN txs : nonceOf(txs[i]) >= ac.startNonce
        /\ \A i, j \in DOMAIN txs : i < j => nonceOf(txs[i]) < nonceOf(txs[j])
        /\ \A i \in DOMAIN txs :
             /\ BalanceBefore(ac, i) >= maxSpending(txs[i])
             /\ txs[i].postBalance = BalanceBefore(ac, i) - maxSpending(txs[i])
             /\ txs[i].postBalance >= 0
        /\ ac.cachedTXs = { txs[i].best : i \in DOMAIN txs }

\* the better transaction b0 took the place of a0 and what is left does not
\* pay for a1, which was dropped from the list and from the map
C39_Witness ==
    /\ account.ret.op = "add"
    /\ account.ret.tx = "b0"
    /\ account.ret.err = NoError
    /\ account.n = 3
    /\ account.ac.startBalance = 3
    /\ account.ac.txsByNonce = << [best |-> "b0", postBalance |-> 0] >>
    /\ account.ac.cachedTXs = {"b0"}
    /\ account.ac.moreInDB

(***************************************************************************)
(* The states of the identities (IdentityStateStorage): a map from node id *)
(* to identity state behind a mutex, which Set holds from its first line   *)
(* to its return.                                                          *)
(***************************************************************************)
ErrInvalidIdentityStateSwitch == "invalid identity state switch"

IdentityStateWaitForATXSyncing == "WaitForATXSyncing"
IdentityStateWaitForPoetRoundStart == "WaitForPoetRoundStart"
IdentityStateWaitForPoetRoundEnd == "WaitForPoetRoundEnd"
IdentityStateFetchingProofs == "FetchingProofs"
IdentityStatePostProving == "PostProving"

IdentityStates ==
    { IdentityStateWaitForATXSyncing, IdentityStateWaitForPoetRoundStart,
      IdentityStateWaitForPoetRoundEnd, IdentityStateFetchingProofs,
      IdentityStatePostProving }

NodeIDs == {"n1", "n2"}

\* the states that follow a state in the table
validStateSwitch(current) ==
    CASE current = IdentityStateWaitForATXSyncing ->
             { IdentityStateWaitForPoetRoundStart }
      [] current = IdentityStatePostProving ->
             { IdentityStateWaitForPoetRoundStart }
      [] current = IdentityStateWaitForPoetRoundStart ->
             { IdentityStateWaitForPoetRoundEnd, IdentityStateWaitForATXSyncing }
      [] current = IdentityStateWaitForPoetRoundEnd ->
             { IdentityStateFetchingProofs, IdentityStateWaitForPoetRoundStart }
      [] current = IdentityStateFetchingProofs ->
             { IdentityStatePostProving, IdentityStateWaitForPoetRoundStart }
      [] OTHER -> {}

\* the map with the state of the identity set
WithState(states, id, newState) ==
    [ n \in DOMAIN states \cup {id} |-> IF n = id THEN newState ELSE states[n] ]

\* mutation of Set: an unknown identity enters any state
SetFromAnywhere(states, id, newState) ==
    IF id \notin DOMAIN states \/ newState \in validStateSwitch(states[id])
    THEN [err |-> NoError, states |-> WithState(states, id, newState)]
    ELSE IF states[id] = newState THEN [err |-> NoError, states |-> states]
    ELSE [err |-> ErrInvalidIdentityStateSwitch, states |-> states]

\* IdentityStateStorage.Set: the error and the map afterwards
Set(states, id, newState) ==
    IF id \notin DOMAIN states
    THEN IF newState = IdentityStateWaitForATXSyncing
         THEN [err |-> NoError, states |-> WithState(states, id, newState)]
         ELSE [err |-> ErrInvalidIdentityStateSwitch, states |-> states]
    ELSE IF states[id] = newState
    THEN [err |-> NoError, states |-> states]
    ELSE IF newState \in validStateSwitch(states[id])
    THEN [err |-> NoError, states |-> WithState(states, id, newState)]
    ELSE [err |-> ErrInvalidIdentityStateSwitch, states |-> states]

\* NewIdentityStateStorage
InitIdentities ==
    /\ identities = [states |-> << >>, ret |-> [op |-> "new"]]
    /\ server = << >>
    /\ account = << >>
    /\ network = << >>
    /\ pubsub = Reliable
    /\ NoSync
    /\ NoCache
    /\ NoHare

besidesIdentities ==
    << proto, now, ret, nin, pair, hareVars, schedVars, stores, conduit, syncer,
       cache, db, locking, pubsub, server, account, network >>

IdentitySet ==
    /\ \E id \in NodeIDs, newState \in IdentityStates :
         \E r \in { Set(identities.states, id, newState) } :
            identities' = [states |-> r.states,
                           ret |-> [op |-> "Set", id |-> id, state |-> newState,
                                    err |-> r.err]]
    /\ UNCHANGED besidesIdentities

SpecIdentities == InitIdentities /\ [][IdentitySet]_vars

(***************************************************************************)
(* C40: Set admits only the allowed transitions.  A Set that returns nil   *)
(* has put an unknown identity into WaitForATXSyncing, or moved a known    *)
(* identity along an edge of validStateSwitch, or named the state the      *)
(* identity is in and changed nothing; in the first two cases only that    *)
(* identity's state has changed.  Every other Set returns                  *)
(* ErrInvalidIdentityStateSwitch and leaves the whole map as it was.       *)
(***************************************************************************)
Entered(old, id, newState) ==
    id \notin DOMAIN old /\ newState = IdentityStateWaitForATXSyncing

Switched(old, id, newState) ==
    id \in DOMAIN old /\ newState \in validStateSwitch(old[id])

Again(old, id, newState) ==
    id \in DOMAIN old /\ old[id] = newState

C40_Step ==
    LET old == identities.states
        new == identities'.states
        r   == identities'.ret
    IN  /\ r.op = "Set"
        /\ r.err \in {NoError, ErrInvalidIdentityStateSwitch}
        /\ r.err = NoError <=>
              \/ Entered(old, r.id, r.state)
              \/ Switched(old, r.id, r.state)
              \/ Again(old, r.id, r.state)
        /\ Again(old, r.id, r.state) => new = old
        /\ r.err = NoError /\ ~Again(old, r.id, r.state) =>
              /\ DOMAIN new = DOMAIN old \cup {r.id}
              /\ new[r.id] = r.state
              /\ \A n \in DOMAIN old \ {r.id} : new[n] = old[n]
        /\ r.err = ErrInvalidIdentityStateSwitch => new = old

\* the stored states are states of the table, never one an identity cannot
\* have been moved to
C40_Stored ==
    \A n \in DOMAIN identities.states : identities.states[n] \in IdentityStates

\* C40: every Set is one of the allowed transitions or an error without change
C40_OnlyAllowed == [] C40_Stored /\ [][C40_Step]_vars

\* n1 went all the way to PostProving, then a Set back to FetchingProofs was
\* refused and left it there
C40_Witness ==
    /\ identities.ret.op = "Set"
    /\ identities.ret.id = "n1"
    /\ identities.ret.state = IdentityStateFetchingProofs
    /\ identities.ret.err = ErrInvalidIdentityStateSwitch
    /\ DOMAIN identities.states = {"n1"}
    /\ identities.states["n1"] = IdentityStatePostProving

=============================================================================
